---- MODULE Spec2Model ----
(***************************************************************************)
(* Execution core of tesser: order sizers, the pre-trade risk checker, the *)
(* execution engine's handle_signal and the WASM plugin algorithm adapter. *)
(*                                                                         *)
(* Decimal (rust_decimal) values are records [m |-> mantissa, s |-> scale] *)
(* standing for m * 10^-s; they are compared numerically, as Decimal's     *)
(* PartialEq/PartialOrd do.  An f64 is a record [k |-> kind, d |-> value]  *)
(* with kind "fin", "nan", "inf" or "ninf".                                *)
(***************************************************************************)
EXTENDS Integers, Sequences, FiniteSets, TLC

VARIABLES
    sizer,      \* an OrderSizer::size call: sizer, inputs, result
    risk,       \* a BasicRiskChecker::check call: checker, request, context, result
    engine,     \* an ExecutionEngine and the handle_signal call it is running
    algo,       \* a WasmAlgorithm (with the guest state of its instance)
    orch,       \* the orchestrator hosting algo: repository, dispatch, crashes
    restore,    \* a WasmAlgorithm::from_snapshot call and the sandbox it made
    threads,    \* threads calling into one WasmAlgorithm: borrow, mutex, positions
    fills,      \* the orchestrator's routing of fills to the algorithms
    history,    \* a StrategyContext: max_history and its two buffers
    rpc,        \* an RpcStrategy, its transport clients and heartbeat tasks
    mock        \* the mock exchange: private-stream sender and connections

vars == <<sizer, risk, engine, algo, orch, restore, threads, fills, history, rpc, mock>>
\* What the operations of one component leave alone.
notSizer == <<risk, engine, algo, orch, restore, threads, fills, history, rpc, mock>>
notRisk == <<sizer, engine, algo, orch, restore, threads, fills, history, rpc, mock>>
notEngine == <<sizer, risk, algo, orch, restore, threads, fills, history, rpc, mock>>
notWasm == <<sizer, risk, engine, restore, threads, fills, history, rpc, mock>>
notRestore == <<sizer, risk, engine, algo, orch, threads, fills, history, rpc, mock>>
notThreads == <<sizer, risk, engine, algo, orch, restore, fills, history, rpc, mock>>
notFills == <<sizer, risk, engine, algo, orch, restore, threads, history, rpc, mock>>
notHistory == <<sizer, risk, engine, algo, orch, restore, threads, fills, rpc, mock>>
notRpc == <<sizer, risk, engine, algo, orch, restore, threads, fills, history, mock>>
notMock == <<sizer, risk, engine, algo, orch, restore, threads, fills, history, rpc>>

----------------------------------------------------------------------------
(* Bounds of the model *)

\* Largest number of fractional digits a Decimal division produces before it
\* rounds (rust_decimal keeps 28; the model keeps fewer to stay within TLC's
\* integers).
MaxScale == 3

\* Most child-order requests in one guest result.
MaxOrders == 2

\* Most callbacks (start, on_tick, on_fill, on_timer) delivered in a run.
MaxEvents == 2

\* Most callbacks delivered to an algorithm rebuilt by from_snapshot.
MaxRestoredCalls == 2

\* Most deliveries of the fill of one order.
MaxDeliveries == 2

\* Largest max_history of a StrategyContext, and most pushes into one buffer.
MaxHistory == 2
MaxPushes == 3

\* Most transport clients one RpcStrategy builds.
MaxClients == 2

\* Most private messages emitted by the mock exchange.
MaxEmits == 2

----------------------------------------------------------------------------
(* Decimal arithmetic *)

RECURSIVE Pow10(_)
Pow10(n) == IF n <= 0 THEN 1 ELSE 10 * Pow10(n - 1)

RECURSIVE Gcd(_, _)
Gcd(a, b) == IF b = 0 THEN a ELSE Gcd(b, a % b)

Abs(x) == IF x < 0 THEN -x ELSE x
Max(a, b) == IF a >= b THEN a ELSE b

Dec(m, s) == [m |-> m, s |-> s]
ZERO == Dec(0, 0)

\* Mantissa of a at scale s (s >= a.s).
AtScale(a, s) == a.m * Pow10(s - a.s)

DecCmp(a, b) ==
    LET s == Max(a.s, b.s)
        x == AtScale(a, s)
        y == AtScale(b, s)
    IN  IF x < y THEN -1 ELSE IF x > y THEN 1 ELSE 0

DecEq(a, b) == DecCmp(a, b) = 0
DecLt(a, b) == DecCmp(a, b) < 0
DecLe(a, b) == DecCmp(a, b) <= 0
DecGt(a, b) == DecCmp(a, b) > 0

DecAdd(a, b) == LET s == Max(a.s, b.s) IN Dec(AtScale(a, s) + AtScale(b, s), s)
DecSub(a, b) == LET s == Max(a.s, b.s) IN Dec(AtScale(a, s) - AtScale(b, s), s)
DecMul(a, b) == Dec(a.m * b.m, a.s + b.s)
DecAbs(a) == Dec(Abs(a.m), a.s)
DecIsZero(a) == a.m = 0

\* Quotient n / d (n >= 0, d > 0) with s fractional digits, the last one
\* rounded half to even.
RoundedQuotient(n, d, s) ==
    LET x == n * Pow10(s)
        q == x \div d
        r == x % d
    IN  IF 2 * r > d \/ (2 * r = d /\ q % 2 = 1) THEN q + 1 ELSE q

\* Decimal division, b # 0: the quotient is exact when it has at most
\* MaxScale fractional digits and rounded at MaxScale digits otherwise.
DecDiv(a, b) ==
    LET n0 == Abs(a.m) * Pow10(b.s)
        d0 == Abs(b.m) * Pow10(a.s)
        g == Gcd(n0, d0)
        n == n0 \div g
        d == d0 \div g
        neg == (a.m < 0) # (b.m < 0)
        exact == {s \in 0..MaxScale : Pow10(s) % d = 0}
        s == IF exact = {} THEN MaxScale
             ELSE CHOOSE t \in exact : \A u \in exact : t <= u
        q == IF exact = {} THEN RoundedQuotient(n, d, s)
             ELSE n * (Pow10(s) \div d)
    IN  Dec(IF neg THEN -q ELSE q, s)

----------------------------------------------------------------------------
(* Results and floating point values *)

Ok(v) == [ok |-> TRUE, val |-> v]
NotCalled == [msg |-> "not called", tag |-> "none"]
Err(e) == [ok |-> FALSE, err |-> e]

Fin(m, s) == [k |-> "fin", d |-> Dec(m, s)]
NaN == [k |-> "nan", d |-> ZERO]
PosInf == [k |-> "inf", d |-> ZERO]
NegInf == [k |-> "ninf", d |-> ZERO]

is_finite(value) == value.k = "fin"

\* Decimal::from_f64: None for a non-finite value.
Decimal_from_f64(value) ==
    IF is_finite(value) THEN Ok(value.d) ELSE Err([msg |-> "None"])

NonFinite(label) == [msg |-> "must be finite", label |-> label]

\* decimal_from_f64 that clamps a non-finite value to zero.
decimal_from_f64_Clamps(value, label) ==
    IF ~is_finite(value)
    THEN Ok(ZERO)
    ELSE Ok(value.d)

\* fn decimal_from_f64(value, label)
decimal_from_f64(value, label) ==
    IF ~is_finite(value)
    THEN Err(NonFinite(label))
    ELSE Ok(value.d)

----------------------------------------------------------------------------
(* Order sizers *)

ZeroOrNegativePrice == [msg |-> "cannot size order with zero or negative price"]
InvalidDenominator == [msg |-> "volatility multiplier produced an invalid denominator"]

FixedOrderSizer_size(quantity, portfolio_equity, last_price) ==
    Ok(quantity)

\* PortfolioPercentSizer::size that divides the equity, not the notional.
PortfolioPercentSizer_size_NoPercent(percent_f64, portfolio_equity, last_price) ==
    IF DecLe(last_price, ZERO)
    THEN Err(ZeroOrNegativePrice)
    ELSE LET percent == decimal_from_f64(percent_f64, "allocation percent")
         IN  IF ~percent.ok THEN percent
             ELSE IF DecLe(percent.val, ZERO) THEN Ok(ZERO)
             ELSE Ok(DecDiv(portfolio_equity, last_price))

PortfolioPercentSizer_size(percent_f64, portfolio_equity, last_price) ==
    IF DecLe(last_price, ZERO)
    THEN Err(ZeroOrNegativePrice)
    ELSE LET percent == decimal_from_f64(percent_f64, "allocation percent")
         IN  IF ~percent.ok THEN percent
             ELSE IF DecLe(percent.val, ZERO) THEN Ok(ZERO)
             ELSE LET notional == DecMul(portfolio_equity, percent.val)
                  IN  Ok(DecDiv(notional, last_price))

\* Placeholder volatility of RiskAdjustedSizer: 0.02.
Volatility == Dec(2, 2)

\* RiskAdjustedSizer::size that leaves the volatility out of the denominator.
RiskAdjustedSizer_size_NoVolatility(risk_fraction_f64, portfolio_equity, last_price) ==
    IF DecLe(last_price, ZERO)
    THEN Err(ZeroOrNegativePrice)
    ELSE LET risk_fraction == decimal_from_f64(risk_fraction_f64, "risk fraction")
         IN  IF ~risk_fraction.ok THEN risk_fraction
             ELSE IF DecLe(risk_fraction.val, ZERO) THEN Ok(ZERO)
             ELSE LET denom == last_price
                  IN  IF DecLe(denom, ZERO) THEN Err(InvalidDenominator)
                      ELSE LET dollars_at_risk ==
                                   DecMul(portfolio_equity, risk_fraction.val)
                           IN  Ok(DecDiv(dollars_at_risk, denom))

RiskAdjustedSizer_size(risk_fraction_f64, portfolio_equity, last_price) ==
    IF DecLe(last_price, ZERO)
    THEN Err(ZeroOrNegativePrice)
    ELSE LET risk_fraction == decimal_from_f64(risk_fraction_f64, "risk fraction")
         IN  IF ~risk_fraction.ok THEN risk_fraction
             ELSE IF DecLe(risk_fraction.val, ZERO) THEN Ok(ZERO)
             ELSE LET denom == DecMul(last_price, Volatility)
                  IN  IF DecLe(denom, ZERO) THEN Err(InvalidDenominator)
                      ELSE LET dollars_at_risk ==
                                   DecMul(portfolio_equity, risk_fraction.val)
                           IN  Ok(DecDiv(dollars_at_risk, denom))

\* OrderSizer::size, dispatched on the sizer the engine owns.
OrderSizer_size(sz, portfolio_equity, last_price) ==
    CASE sz.variant = "Fixed" ->
            FixedOrderSizer_size(sz.quantity, portfolio_equity, last_price)
      [] sz.variant = "Percent" ->
            PortfolioPercentSizer_size(sz.percent, portfolio_equity, last_price)
      [] sz.variant = "RiskAdjusted" ->
            RiskAdjustedSizer_size(sz.risk_fraction, portfolio_equity, last_price)

FixedSizer(q) == [variant |-> "Fixed", quantity |-> q]
PercentSizer(p) == [variant |-> "Percent", percent |-> p]
RiskSizer(f) == [variant |-> "RiskAdjusted", risk_fraction |-> f]

\* Inputs of the sizer calls.
Quantities == {Dec(-1, 0), ZERO, Dec(5, 1), Dec(2, 0)}
Fractions == {NaN, PosInf, NegInf, Fin(-5, 2), Fin(0, 0), Fin(1, 2), Fin(5, 2)}
Equities == {Dec(-25000, 0), ZERO, Dec(1, 0), Dec(10, 0), Dec(25000, 0)}
Prices == {Dec(-1, 0), ZERO, Dec(5, 1), Dec(3, 0), Dec(50000, 0)}

\* OrderSizer::size applied to the inputs drawn by SizerInit.
SizeCall(variant) ==
    /\ ~sizer.called
    /\ sizer.sz.variant = variant
    /\ sizer' = [sizer EXCEPT !.called = TRUE,
                              !.out = OrderSizer_size(sizer.sz, sizer.equity,
                                                      sizer.price)]
    /\ UNCHANGED notSizer

FixedSize == SizeCall("Fixed")
PercentSize == SizeCall("Percent")
RiskAdjustedSize == SizeCall("RiskAdjusted")

Sizers ==
    {FixedSizer(q) : q \in Quantities}
        \cup {PercentSizer(f) : f \in Fractions}
        \cup {RiskSizer(f) : f \in Fractions}

----------------------------------------------------------------------------
(* Pre-trade risk checker *)

Sides == {"Buy", "Sell"}

\* f64::max(self, 0.0): NaN and everything below zero become 0.0.
F64Max0(x) ==
    CASE x.k = "nan" -> Fin(0, 0)
      [] x.k = "ninf" -> Fin(0, 0)
      [] x.k = "inf" -> x
      [] OTHER -> IF DecLt(x.d, ZERO) THEN Fin(0, 0) ELSE x

\* sanitized that takes the absolute value of a finite limit.
RiskLimits_sanitized_Abs(self) ==
    LET abs0(x) == IF x.k = "fin" THEN Fin(Abs(x.d.m), x.d.s) ELSE F64Max0(x)
    IN  [max_order_quantity |-> abs0(self.max_order_quantity),
         max_position_quantity |-> abs0(self.max_position_quantity)]

RiskLimits_sanitized(self) ==
    [max_order_quantity |-> F64Max0(self.max_order_quantity),
     max_position_quantity |-> F64Max0(self.max_position_quantity)]

BasicRiskChecker_new(limits) == [limits |-> RiskLimits_sanitized(limits)]

\* Option::unwrap_or(Decimal::ZERO) on Decimal::from_f64.
unwrap_or_zero(r) == IF r.ok THEN r.val ELSE ZERO

\* Decimal::to_f64
to_f64(d) == [k |-> "fin", d |-> d]

MaxOrderSize(quantity, limit) ==
    [tag |-> "MaxOrderSize", quantity |-> quantity, limit |-> limit]
MaxPositionExposure(projected, limit) ==
    [tag |-> "MaxPositionExposure", projected |-> projected, limit |-> limit]
LiquidateOnly == [tag |-> "LiquidateOnly"]

\* liquidate_only_check without the flip test (qty > |position|).
liquidate_only_check_NoFlip(qty, request, ctx) ==
    LET position == ctx.signed_position_qty
        reduces == \/ (DecGt(position, ZERO) /\ request.side = "Sell")
                   \/ (DecLt(position, ZERO) /\ request.side = "Buy")
    IN  IF DecIsZero(position) THEN Err(LiquidateOnly)
        ELSE IF ~reduces THEN Err(LiquidateOnly)
        ELSE Ok("unit")

\* liquidate-only check that accepts either side.
liquidate_only_check_AnySide(qty, request, ctx) ==
    LET position == ctx.signed_position_qty
    IN  IF DecIsZero(position) THEN Err(LiquidateOnly)
        ELSE IF DecGt(qty, DecAbs(position)) THEN Err(LiquidateOnly)
        ELSE Ok("unit")

liquidate_only_check(qty, request, ctx) ==
    LET position == ctx.signed_position_qty
        reduces == \/ (DecGt(position, ZERO) /\ request.side = "Sell")
                   \/ (DecLt(position, ZERO) /\ request.side = "Buy")
    IN  IF DecIsZero(position) THEN Err(LiquidateOnly)
        ELSE IF ~reduces THEN Err(LiquidateOnly)
        ELSE IF DecGt(qty, DecAbs(position)) THEN Err(LiquidateOnly)
        ELSE Ok("unit")

\* projected_position that adds the quantity whatever the side.
projected_position_AlwaysAdds(qty, request, ctx) ==
    DecAdd(ctx.signed_position_qty, qty)

projected_position(qty, request, ctx) ==
    IF request.side = "Buy"
    THEN DecAdd(ctx.signed_position_qty, qty)
    ELSE DecSub(ctx.signed_position_qty, qty)

\* check with the position rule tried before the order-size rule.
BasicRiskChecker_check_PositionFirst(self, request, ctx) ==
    LET qty == DecAbs(request.quantity)
        max_order == unwrap_or_zero(Decimal_from_f64(self.limits.max_order_quantity))
        projected == projected_position(qty, request, ctx)
        max_position ==
            unwrap_or_zero(Decimal_from_f64(self.limits.max_position_quantity))
    IN  IF DecGt(max_position, ZERO) /\ DecGt(DecAbs(projected), max_position)
        THEN Err(MaxPositionExposure(to_f64(projected),
                                     self.limits.max_position_quantity))
        ELSE IF DecGt(max_order, ZERO) /\ DecGt(qty, max_order)
        THEN Err(MaxOrderSize(to_f64(qty), self.limits.max_order_quantity))
        ELSE IF ctx.liquidate_only
        THEN liquidate_only_check(qty, request, ctx)
        ELSE Ok("unit")

\* check whose order-size rule also rejects a quantity equal to the limit.
BasicRiskChecker_check_SizeInclusive(self, request, ctx) ==
    LET qty == DecAbs(request.quantity)
        max_order == unwrap_or_zero(Decimal_from_f64(self.limits.max_order_quantity))
        projected == projected_position(qty, request, ctx)
        max_position ==
            unwrap_or_zero(Decimal_from_f64(self.limits.max_position_quantity))
    IN  IF DecGt(max_order, ZERO) /\ ~DecLt(qty, max_order)
        THEN Err(MaxOrderSize(to_f64(qty), self.limits.max_order_quantity))
        ELSE IF DecGt(max_position, ZERO) /\ DecGt(DecAbs(projected), max_position)
        THEN Err(MaxPositionExposure(to_f64(projected),
                                     self.limits.max_position_quantity))
        ELSE IF ctx.liquidate_only
        THEN liquidate_only_check(qty, request, ctx)
        ELSE Ok("unit")

BasicRiskChecker_check(self, request, ctx) ==
    LET qty == DecAbs(request.quantity)
        max_order == unwrap_or_zero(Decimal_from_f64(self.limits.max_order_quantity))
        projected == projected_position(qty, request, ctx)
        max_position ==
            unwrap_or_zero(Decimal_from_f64(self.limits.max_position_quantity))
    IN  IF DecGt(max_order, ZERO) /\ DecGt(qty, max_order)
        THEN Err(MaxOrderSize(to_f64(qty), self.limits.max_order_quantity))
        ELSE IF DecGt(max_position, ZERO) /\ DecGt(DecAbs(projected), max_position)
        THEN Err(MaxPositionExposure(to_f64(projected),
                                     self.limits.max_position_quantity))
        ELSE IF ctx.liquidate_only
        THEN liquidate_only_check(qty, request, ctx)
        ELSE Ok("unit")

NoopRiskChecker_check(request, ctx) == Ok("unit")

\* Inputs of the risk checks.
OrderLimits == {NaN, PosInf, Fin(-1, 0), Fin(0, 0), Fin(1, 0), Fin(3, 0)}
PositionLimits == {NaN, Fin(-2, 0), Fin(0, 0), Fin(4, 0)}
RequestQuantities == {Dec(-2, 0), Dec(5, 1), Dec(1, 0), Dec(2, 0), Dec(3, 0), Dec(6, 0)}
Positions == {Dec(-5, 0), ZERO, Dec(2, 0), Dec(5, 0)}

RiskIdle ==
    [raw |-> [max_order_quantity |-> Fin(0, 0), max_position_quantity |-> Fin(0, 0)],
     checker |-> BasicRiskChecker_new([max_order_quantity |-> Fin(0, 0),
                                       max_position_quantity |-> Fin(0, 0)]),
     request |-> [side |-> "Buy", quantity |-> ZERO],
     ctx |-> [signed_position_qty |-> ZERO, liquidate_only |-> FALSE],
     called |-> FALSE, out |-> Err(NotCalled)]

\* BasicRiskChecker::check applied to the inputs drawn by RiskInit.
RiskCheck ==
    /\ ~risk.called
    /\ risk' = [risk EXCEPT !.called = TRUE,
                            !.out = BasicRiskChecker_check(risk.checker,
                                                           risk.request, risk.ctx)]
    /\ UNCHANGED notRisk

SizerIdle == [sz |-> FixedSizer(ZERO), equity |-> ZERO, price |-> ZERO,
              called |-> FALSE, out |-> Err(NotCalled)]

----------------------------------------------------------------------------
(* Execution engine *)

None == [some |-> FALSE]
Some(v) == [some |-> TRUE, v |-> v]

SignalKinds == {"EnterLong", "ExitLong", "EnterShort", "ExitShort", "Flatten"}

\* BrokerError::Other / BrokerError::InvalidRequest and the client's errors.
BrokerOther(e) == [broker |-> "Other", cause |-> e]
BrokerInvalidRequest(e) == [broker |-> "InvalidRequest", cause |-> e]
BrokerErrors == {"Network", "Rejected"}
ClientError(kind) == [broker |-> kind]

\* PreTradeRiskChecker::check, dispatched on the checker the engine owns.
PreTradeRiskChecker_check(rk, request, ctx) ==
    IF rk.kind = "Noop"
    THEN NoopRiskChecker_check(request, ctx)
    ELSE BasicRiskChecker_check(rk.basic, request, ctx)

build_request(symbol, side, qty, client_order_id) ==
    [symbol |-> symbol, side |-> side, order_type |-> "Market", quantity |-> qty,
     price |-> None, trigger_price |-> None, time_in_force |-> None,
     client_order_id |-> client_order_id, take_profit |-> None,
     stop_loss |-> None, display_quantity |-> None]

\* The protective request of handle_signal: suffix is "-sl" or "-tp".
protective_request(signal, stop_side, qty, trigger, suffix) ==
    [symbol |-> signal.symbol, side |-> stop_side, order_type |-> "StopMarket",
     quantity |-> qty, price |-> None, trigger_price |-> Some(trigger),
     time_in_force |-> None,
     client_order_id |-> Some([id |-> signal.id, suffix |-> suffix]),
     take_profit |-> None, stop_loss |-> None, display_quantity |-> None]

\* The parent side with the two exits swapped.
parent_side_ExitsSwapped(kind) ==
    CASE kind = "EnterLong" -> "Buy"
      [] kind \in {"ExitShort", "Flatten"} -> "Sell"
      [] kind = "EnterShort" -> "Sell"
      [] kind = "ExitLong" -> "Buy"

parent_side(kind) ==
    CASE kind = "EnterLong" -> "Buy"
      [] kind \in {"ExitLong", "Flatten"} -> "Sell"
      [] kind = "EnterShort" -> "Sell"
      [] kind = "ExitShort" -> "Buy"

\* The protective side taken to be the parent's side.
stop_side_AsParent(kind) ==
    CASE kind \in {"EnterLong", "ExitShort"} -> "Buy"
      [] kind \in {"EnterShort", "ExitLong"} -> "Sell"

stop_side(kind) ==
    CASE kind \in {"EnterLong", "ExitShort"} -> "Sell"
      [] kind \in {"EnterShort", "ExitLong"} -> "Buy"

\* send_order that hands the request to the client whatever the verdict.
send_order_begin_Unchecked(e, leg, request) ==
    LET verdict == PreTradeRiskChecker_check(e.risk, request, e.ctx)
    IN  [e EXCEPT
            !.checks = Append(@, [leg |-> leg, request |-> request,
                                  verdict |-> verdict]),
            !.calls = Append(@, [leg |-> leg, request |-> request,
                                 outcome |-> "pending"]),
            !.pc = leg,
            !.sent = Ok("pending")]

\* send_order up to the call of place_order: the risk check, and the request
\* handed to the client when the check passes.
send_order_begin(e, leg, request) ==
    LET verdict == PreTradeRiskChecker_check(e.risk, request, e.ctx)
    IN  [e EXCEPT
            !.checks = Append(@, [leg |-> leg, request |-> request,
                                  verdict |-> verdict]),
            !.calls = IF verdict.ok
                      THEN Append(@, [leg |-> leg, request |-> request,
                                      outcome |-> "pending"])
                      ELSE @,
            !.pc = IF verdict.ok THEN leg ELSE @,
            !.sent = IF verdict.ok THEN Ok("pending")
                     ELSE Err(BrokerInvalidRequest(verdict.err))]

\* Ok(Some(order))
return_parent(e) == [e EXCEPT !.pc = "done", !.result = Ok(Some(e.order.v))]

warn(e, leg) == [e EXCEPT !.warnings = Append(@, leg)]

\* The take-profit leg and the return that follows it.
take_profit_leg(e) ==
    IF e.signal.take_profit.some
    THEN LET e1 == send_order_begin(e, "tp",
                       protective_request(e.signal, stop_side(e.signal.kind),
                                          e.qty, e.signal.take_profit.v, "-tp"))
         IN  IF e1.sent.ok THEN e1 ELSE return_parent(warn(e1, "tp"))
    ELSE return_parent(e)

\* The stop-loss leg.
stop_loss_leg(e) ==
    IF e.signal.stop_loss.some
    THEN LET e1 == send_order_begin(e, "sl",
                       protective_request(e.signal, stop_side(e.signal.kind),
                                          e.qty, e.signal.stop_loss.v, "-sl"))
         IN  IF e1.sent.ok THEN e1 ELSE take_profit_leg(warn(e1, "sl"))
    ELSE take_profit_leg(e)

\* handle_signal that protects a Flatten parent with a take-profit leg.
after_parent_FlattenProtected(e) ==
    IF e.signal.kind = "Flatten"
    THEN IF e.signal.take_profit.some
         THEN LET e1 == send_order_begin(e, "tp",
                            protective_request(e.signal, "Buy", e.qty,
                                               e.signal.take_profit.v, "-tp"))
              IN  IF e1.sent.ok THEN e1 ELSE return_parent(warn(e1, "tp"))
         ELSE return_parent(e)
    ELSE stop_loss_leg(e)

\* handle_signal once the parent order is placed.
after_parent(e) ==
    IF e.signal.kind = "Flatten" THEN return_parent(e) ELSE stop_loss_leg(e)

\* A stop-loss failure propagated with `?` instead of being warned about.
after_stop_loss_Propagates(e, outcome) ==
    IF outcome = "Ok" THEN take_profit_leg(e)
    ELSE [e EXCEPT !.pc = "done", !.result = Err(ClientError(outcome))]

\* handle_signal once the stop-loss send_order has returned: an error is warned
\* about and dropped.
after_stop_loss(e, outcome) ==
    take_profit_leg(IF outcome = "Ok" THEN e ELSE warn(e, "sl"))

\* handle_signal that sends the take-profit leg again when it failed.
after_take_profit_Retries(e, outcome) ==
    IF outcome = "Ok" THEN return_parent(e) ELSE take_profit_leg(warn(e, "tp"))

\* handle_signal once the take-profit send_order has returned.
after_take_profit(e, outcome) ==
    return_parent(IF outcome = "Ok" THEN e ELSE warn(e, "tp"))

\* handle_signal that skips only a negative quantity and sends a zero one.
handle_signal_begin_SendsZero(e0, signal, ctx) ==
    LET e == [e0 EXCEPT !.signal = signal, !.ctx = ctx]
        sized == OrderSizer_size(e.sizer, ctx.portfolio_equity, ctx.last_price)
    IN  IF ~sized.ok
        THEN [e EXCEPT !.pc = "done", !.result = Err(BrokerOther(sized.err))]
        ELSE IF DecLt(sized.val, ZERO)
        THEN [e EXCEPT !.pc = "done", !.qty = sized.val, !.result = Ok(None)]
        ELSE LET request == build_request(signal.symbol, parent_side(signal.kind),
                                          sized.val, Some([id |-> signal.id,
                                                           suffix |-> ""]))
                 e1 == send_order_begin([e EXCEPT !.qty = sized.val],
                                        "parent", request)
             IN  IF e1.sent.ok THEN e1
                 ELSE [e1 EXCEPT !.pc = "done", !.result = e1.sent]

\* handle_signal that drops a rejected parent the way it drops a rejected
\* protective leg.
handle_signal_begin_DropsReject(e0, signal, ctx) ==
    LET e == [e0 EXCEPT !.signal = signal, !.ctx = ctx]
        sized == OrderSizer_size(e.sizer, ctx.portfolio_equity, ctx.last_price)
    IN  IF ~sized.ok
        THEN [e EXCEPT !.pc = "done", !.result = Err(BrokerOther(sized.err))]
        ELSE IF DecLe(sized.val, ZERO)
        THEN [e EXCEPT !.pc = "done", !.qty = sized.val, !.result = Ok(None)]
        ELSE LET request == build_request(signal.symbol, parent_side(signal.kind),
                                          sized.val, Some([id |-> signal.id,
                                                           suffix |-> ""]))
                 e1 == send_order_begin([e EXCEPT !.qty = sized.val],
                                        "parent", request)
             IN  IF e1.sent.ok THEN e1
                 ELSE [e1 EXCEPT !.pc = "done", !.result = Ok(None)]

\* handle_signal up to the first place_order: sizing, the parent request and
\* its risk check.
handle_signal_begin(e0, signal, ctx) ==
    LET e == [e0 EXCEPT !.signal = signal, !.ctx = ctx]
        sized == OrderSizer_size(e.sizer, ctx.portfolio_equity, ctx.last_price)
    IN  IF ~sized.ok
        THEN [e EXCEPT !.pc = "done", !.result = Err(BrokerOther(sized.err))]
        ELSE IF DecLe(sized.val, ZERO)
        THEN [e EXCEPT !.pc = "done", !.qty = sized.val, !.result = Ok(None)]
        ELSE LET request == build_request(signal.symbol, parent_side(signal.kind),
                                          sized.val, Some([id |-> signal.id,
                                                           suffix |-> ""]))
                 e1 == send_order_begin([e EXCEPT !.qty = sized.val],
                                        "parent", request)
             IN  IF e1.sent.ok THEN e1
                 ELSE [e1 EXCEPT !.pc = "done", !.result = e1.sent]

\* The outcome of the place_order call in flight, recorded.
place_order_returns(e, outcome) ==
    [e EXCEPT !.calls[Len(e.calls)].outcome = outcome]

\* Inputs of the engine.
EngineSizers == {FixedSizer(Dec(2, 0)), FixedSizer(ZERO), FixedSizer(Dec(-1, 0)),
                 PercentSizer(Fin(5, 2)), PercentSizer(NaN), RiskSizer(PosInf)}
EngineCheckers ==
    {[kind |-> "Noop"],
     [kind |-> "Basic",
      basic |-> BasicRiskChecker_new([max_order_quantity |-> Fin(3, 0),
                                      max_position_quantity |-> Fin(4, 0)])],
     [kind |-> "Basic",
      basic |-> BasicRiskChecker_new([max_order_quantity |-> Fin(1, 0),
                                      max_position_quantity |-> Fin(0, 0)])]}
Triggers == {None, Some(Dec(90, 0))}
Signals ==
    {[id |-> "sig", symbol |-> "BTCUSDT", kind |-> k, stop_loss |-> sl,
      take_profit |-> tp] : k \in SignalKinds, sl \in Triggers, tp \in Triggers}
Contexts ==
    {[signed_position_qty |-> pos, portfolio_equity |-> Dec(100, 0),
      last_price |-> p, liquidate_only |-> lo] :
        pos \in {Dec(-5, 0), ZERO, Dec(5, 0)}, p \in {ZERO, Dec(5, 0)},
        lo \in BOOLEAN}

\* ExecutionEngine::new
ExecutionEngine_new(sz, rk) ==
    [sizer |-> sz, risk |-> rk, pc |-> "idle",
     signal |-> [id |-> "none", symbol |-> "none", kind |-> "Flatten",
                 stop_loss |-> None, take_profit |-> None],
     ctx |-> [signed_position_qty |-> ZERO, portfolio_equity |-> ZERO,
              last_price |-> ZERO, liquidate_only |-> FALSE],
     qty |-> ZERO, order |-> None, sent |-> Ok("none"),
     checks |-> <<>>, calls |-> <<>>, warnings |-> <<>>,
     result |-> Err(NotCalled)]

EngineIdle == ExecutionEngine_new(FixedSizer(ZERO), [kind |-> "Noop"])

HandleSignal ==
    /\ engine.pc = "idle"
    /\ \E signal \in Signals, ctx \in Contexts :
          engine' = handle_signal_begin(engine, signal, ctx)
    /\ UNCHANGED notEngine

ParentReturns ==
    /\ engine.pc = "parent"
    /\ \E outcome \in {"Ok"} \cup BrokerErrors :
          LET e == place_order_returns(engine, outcome)
          IN  engine' =
                IF outcome = "Ok"
                THEN after_parent(
                        [e EXCEPT !.order =
                            Some([id |-> Len(e.calls),
                                  request |-> e.calls[Len(e.calls)].request])])
                ELSE [e EXCEPT !.pc = "done", !.result = Err(ClientError(outcome))]
    /\ UNCHANGED notEngine

StopLossReturns ==
    /\ engine.pc = "sl"
    /\ \E outcome \in {"Ok"} \cup BrokerErrors :
          engine' = after_stop_loss(place_order_returns(engine, outcome), outcome)
    /\ UNCHANGED notEngine

TakeProfitReturns ==
    /\ engine.pc = "tp"
    /\ \E outcome \in {"Ok"} \cup BrokerErrors :
          engine' = after_take_profit(place_order_returns(engine, outcome), outcome)
    /\ UNCHANGED notEngine

----------------------------------------------------------------------------
(* WASM plugin adapter *)

\* serde_json::Value of a guest state: Null, or the state the guest encoded.
Null == [null |-> TRUE]
Json(g) == [null |-> FALSE, g |-> g]

AlgoId == "a1"
PluginContext == [plugin |-> "twap", signal |-> "sig"]
Terminal == {"Completed", "Cancelled", "Failed"}

\* What a guest can list in result.orders: a Place without client_order_id,
\* a Place with its own client_order_id, an Amend.
PlaceAuto == [action |-> "place", client_order_id |-> None]
PlaceOwn == [action |-> "place", client_order_id |-> Some([guest |-> "own"])]
Amend == [action |-> "amend", client_order_id |-> None]
ChildKinds == {PlaceAuto, PlaceOwn, Amend}

RECURSIVE SeqsUpTo(_, _)
SeqsUpTo(S, n) ==
    IF n = 0 THEN {<<>>}
    ELSE LET shorter == SeqsUpTo(S, n - 1)
         IN  shorter \cup {Append(s, x) : s \in shorter, x \in S}

\* What a guest entry point can answer: a trap, a string that is no
\* PluginResult, or a PluginResult.
GuestAnswers ==
    {[kind |-> "trap"], [kind |-> "malformed"]}
        \cup {[kind |-> "result", orders |-> os, completed |-> c] :
                os \in SeqsUpTo(ChildKinds, MaxOrders), c \in BOOLEAN}

\* WasmAlgorithm::new
WasmAlgorithm_new(context) ==
    [id |-> AlgoId, status |-> "Working", started |-> FALSE, instance |-> 0,
     context |-> context, plugin_state |-> Null, next_client_seq |-> 0]

\* WasmAlgorithm::state
state(self) ==
    [plugin |-> self.context, plugin_state |-> self.plugin_state,
     status |-> self.status, next_client_seq |-> self.next_client_seq]

\* The guest state after restore(state_json).
restored_guest(plugin_state) == IF plugin_state.null THEN 0 ELSE plugin_state.g

\* from_snapshot that starts the client sequence afresh.
from_snapshot_ResetsSeq(algo_id, snapshot) ==
    [id |-> algo_id, status |-> snapshot.status, started |-> TRUE,
     instance |-> restored_guest(snapshot.plugin_state),
     context |-> snapshot.plugin, plugin_state |-> snapshot.plugin_state,
     next_client_seq |-> 0]

\* WasmAlgorithm::from_snapshot, the guest's restore having succeeded.
from_snapshot(algo_id, snapshot) ==
    [id |-> algo_id, status |-> snapshot.status, started |-> TRUE,
     instance |-> restored_guest(snapshot.plugin_state),
     context |-> snapshot.plugin, plugin_state |-> snapshot.plugin_state,
     next_client_seq |-> snapshot.next_client_seq]

\* format!("plugin-{}-{:04}", id, seq)
client_id(id, seq) == [plugin |-> id, seq |-> seq]

HostIds == {client_id(AlgoId, n) : n \in 1..(MaxEvents * MaxOrders)}

\* ensure_client_id that advances the sequence for every Place, the guest's
\* own client_order_id being kept.
ensure_client_id_AlwaysCounts(self, order) ==
    IF ~order.client_order_id.some
    THEN [a |-> [self EXCEPT !.next_client_seq = @ + 1],
          order |-> [order EXCEPT !.client_order_id =
                        Some(client_id(self.id, self.next_client_seq + 1))]]
    ELSE [a |-> [self EXCEPT !.next_client_seq = @ + 1], order |-> order]

ensure_client_id(self, order) ==
    IF ~order.client_order_id.some
    THEN [a |-> [self EXCEPT !.next_client_seq = @ + 1],
          order |-> [order EXCEPT !.client_order_id =
                        Some(client_id(self.id, self.next_client_seq + 1))]]
    ELSE [a |-> self, order |-> order]

build_child_request(self, req) ==
    IF req.action = "place"
    THEN LET r == ensure_client_id(self, req)
         IN  [a |-> r.a,
              req |-> [parent_algo_id |-> self.id, action |-> "Place",
                       client_order_id |-> r.order.client_order_id]]
    ELSE [a |-> self,
          req |-> [parent_algo_id |-> self.id, action |-> "Amend",
                   client_order_id |-> None]]

\* The loop of decode_result putting each request in front of the earlier ones.
RECURSIVE map_orders_Reversed(_, _, _)
map_orders_Reversed(self, orders, mapped) ==
    IF orders = <<>> THEN [a |-> self, out |-> Ok(mapped)]
    ELSE LET r == build_child_request(self, Head(orders))
         IN  map_orders_Reversed(r.a, Tail(orders), <<r.req>> \o mapped)

\* The loop of decode_result over result.orders.
RECURSIVE map_orders(_, _, _)
map_orders(self, orders, mapped) ==
    IF orders = <<>> THEN [a |-> self, out |-> Ok(mapped)]
    ELSE LET r == build_child_request(self, Head(orders))
         IN  map_orders(r.a, Tail(orders), Append(mapped, r.req))

\* decode_result that returns no child order once the guest has completed.
decode_result_DropsOnCompleted(self, raw) ==
    IF raw.kind = "malformed"
    THEN [a |-> self, out |-> Err([msg |-> "invalid PluginResult"])]
    ELSE IF raw.completed
    THEN [a |-> [self EXCEPT !.status = "Completed"], out |-> Ok(<<>>)]
    ELSE map_orders([self EXCEPT !.status = "Working"], raw.orders, <<>>)

decode_result(self, raw) ==
    IF raw.kind = "malformed"
    THEN [a |-> self, out |-> Err([msg |-> "invalid PluginResult"])]
    ELSE map_orders([self EXCEPT !.status = IF raw.completed THEN "Completed"
                                            ELSE "Working"],
                    raw.orders, <<>>)

\* refresh_snapshot: the guest's snapshot() decoded into plugin_state.
refresh_snapshot(self, snapshot_ok) ==
    IF snapshot_ok
    THEN [a |-> [self EXCEPT !.plugin_state = Json(self.instance)],
          out |-> Ok("unit")]
    ELSE [a |-> self, out |-> Err([msg |-> "snapshot failed"])]

\* call_tick, call_fill, call_timer: the guest call, decode_result,
\* refresh_snapshot.  A guest call that does not trap advances the guest state.
call_guest(self, answer, snapshot_ok) ==
    IF answer.kind = "trap"
    THEN [a |-> self, out |-> Err([msg |-> "guest call failed"])]
    ELSE LET d == decode_result([self EXCEPT !.instance = @ + 1], answer)
         IN  IF ~d.out.ok THEN d
             ELSE LET s == refresh_snapshot(d.a, snapshot_ok)
                  IN  IF ~s.out.ok THEN s ELSE [a |-> s.a, out |-> d.out]

call_init(self, answer, snapshot_ok) ==
    LET r == call_guest(self, answer, snapshot_ok)
    IN  IF r.out.ok THEN [r EXCEPT !.a.started = TRUE] ELSE r

\* start that calls init whether or not the algorithm was started.
start_AlwaysInits(self, answer, snapshot_ok) == call_init(self, answer, snapshot_ok)

start(self, answer, snapshot_ok) ==
    IF self.started THEN [a |-> self, out |-> Ok(<<>>)]
    ELSE call_init(self, answer, snapshot_ok)

on_tick(self, answer, snapshot_ok) == call_guest(self, answer, snapshot_ok)
on_fill(self, answer, snapshot_ok) == call_guest(self, answer, snapshot_ok)
on_timer(self, answer, snapshot_ok) == call_guest(self, answer, snapshot_ok)

cancel(self) == [a |-> [self EXCEPT !.status = "Cancelled"], out |-> Ok("unit")]

\* The placement hooks of the adapter do nothing.
on_child_order_placed(self, order) == self
bind_child_order(self, order) == [a |-> self, out |-> Ok("unit")]

----------------------------------------------------------------------------
(* Orchestrator hosting the algorithm: snapshot persistence, dispatch of the
   child orders, crash and restore *)

AlgoIdle == WasmAlgorithm_new(PluginContext)
OrchIdle ==
    [pc |-> "new", alive |-> FALSE, repo |-> None, pending |-> <<>>,
     placed |-> <<>>, events |-> 0, raw |-> None, out |-> Ok(<<>>),
     restored |-> FALSE]

\* submit: the algorithm is constructed and its initial snapshot persisted.
Submit ==
    /\ orch.pc = "new"
    /\ algo' = WasmAlgorithm_new(PluginContext)
    /\ orch' = [orch EXCEPT !.pc = "idle", !.alive = TRUE,
                            !.repo = Some(state(algo'))]
    /\ UNCHANGED notWasm

\* The orchestrator after a callback returned r: the children await dispatch,
\* then the snapshot is persisted.  raw is what the guest answered to the
\* callback, None when the guest was not called.
Delivered(r, raw) ==
    /\ algo' = r.a
    /\ orch' = [orch EXCEPT
                  !.pending = IF r.out.ok THEN r.out.val ELSE <<>>,
                  !.pc = IF r.out.ok /\ r.out.val # <<>> THEN "dispatch"
                         ELSE "persist",
                  !.events = @ + 1, !.raw = raw, !.out = r.out]
    /\ UNCHANGED notWasm

CanCall == orch.pc = "idle" /\ orch.alive /\ orch.events < MaxEvents

Start ==
    /\ CanCall
    /\ \E answer \in GuestAnswers, snapshot_ok \in BOOLEAN :
          Delivered(start(algo, answer, snapshot_ok),
                    IF algo.started THEN None ELSE Some(answer))

OnTick ==
    /\ CanCall
    /\ \E answer \in GuestAnswers, snapshot_ok \in BOOLEAN :
          Delivered(on_tick(algo, answer, snapshot_ok), Some(answer))

OnFill ==
    /\ CanCall
    /\ \E answer \in GuestAnswers, snapshot_ok \in BOOLEAN :
          Delivered(on_fill(algo, answer, snapshot_ok), Some(answer))

OnTimer ==
    /\ CanCall
    /\ \E answer \in GuestAnswers, snapshot_ok \in BOOLEAN :
          Delivered(on_timer(algo, answer, snapshot_ok), Some(answer))

Cancel ==
    /\ orch.pc = "idle" /\ orch.alive
    /\ LET r == cancel(algo)
       IN  /\ algo' = r.a
           /\ orch' = [orch EXCEPT !.pc = "persist", !.raw = None,
                                   !.out = Ok(<<>>)]
    /\ UNCHANGED notWasm

\* The next child order is sent to the broker; a Place that succeeds is an
\* order placed under its client_order_id (orch.placed lists the host-assigned
\* ones, in placement order).
Dispatch ==
    /\ orch.pc = "dispatch" /\ orch.pending # <<>>
    /\ \E placed_ok \in BOOLEAN :
          LET child == Head(orch.pending)
              rest == Tail(orch.pending)
          IN  orch' = [orch EXCEPT
                  !.pending = rest,
                  !.placed = IF /\ placed_ok
                                /\ child.action = "Place"
                                /\ child.client_order_id.v \in HostIds
                             THEN Append(@, child.client_order_id.v)
                             ELSE @,
                  !.pc = IF rest = <<>> THEN "persist" ELSE "dispatch"]
    /\ algo' = on_child_order_placed(algo, Head(orch.pending))
    /\ UNCHANGED notWasm

\* The snapshot of the algorithm is written to the repository.
Persist ==
    /\ orch.pc = "persist"
    /\ orch' = [orch EXCEPT !.repo = Some(state(algo)), !.pc = "idle",
                            !.raw = None, !.out = Ok(<<>>)]
    /\ UNCHANGED <<algo>>
    /\ UNCHANGED notWasm

\* The process stops: the live algorithm and the undispatched children are
\* lost, the repository and the orders at the broker stay.
Crash ==
    /\ orch.alive
    /\ orch' = [orch EXCEPT !.alive = FALSE, !.pc = "down", !.pending = <<>>,
                            !.raw = None, !.out = Ok(<<>>)]
    /\ algo' = AlgoIdle
    /\ UNCHANGED notWasm

\* The placements the broker knows of, replayed to a restored algorithm.
RECURSIVE replay_placements(_, _)
replay_placements(self, orders) ==
    IF orders = <<>> THEN self
    ELSE replay_placements(bind_child_order(self, Head(orders)).a, Tail(orders))

\* The snapshots restore_all loads: the non-terminal ones.
non_terminal(snapshot) == snapshot.status \notin Terminal

\* restore_all: a non-terminal snapshot is loaded and the algorithm rebuilt
\* from it by from_snapshot, then told of the orders placed.  from_snapshot
\* returns an error when the guest does not accept restore, and then there is
\* no algorithm; a terminal snapshot is not loaded at all.
Restore ==
    /\ orch.pc = "down"
    /\ \E restore_ok \in BOOLEAN :
          IF orch.repo.some /\ non_terminal(orch.repo.v)
          THEN IF restore_ok
               THEN /\ algo' = replay_placements(
                                  from_snapshot(AlgoId, orch.repo.v), orch.placed)
                    /\ orch' = [orch EXCEPT !.alive = TRUE, !.pc = "idle",
                                            !.restored = TRUE]
               ELSE /\ orch' = [orch EXCEPT !.pc = "failed",
                                            !.out = Err([msg |-> "restore failed"])]
                    /\ UNCHANGED <<algo>>
          ELSE /\ orch' = [orch EXCEPT !.pc = "gone"]
               /\ UNCHANGED <<algo>>
    /\ UNCHANGED notWasm

----------------------------------------------------------------------------
(* Restoration of an algorithm from a snapshot, with the guest entry points
   the sandbox sees *)

\* WasmPluginEngine::instantiate: a fresh sandbox that no entry point has run in.
instantiate == [g |-> 0, calls |-> <<>>]

\* A guest entry point that ran, and whether it returned normally.
Ran(entry, ok) == [entry |-> entry, ok |-> ok]

\* The sandbox after one guest entry point ran and left the guest state g.
guest_call(sandbox, entry, ok, g) ==
    [g |-> g, calls |-> Append(sandbox.calls, Ran(entry, ok))]

\* from_snapshot that does not run init before restore.
from_snapshot_calls_NoInit(algo_id, snapshot, instantiate_ok, init_answer, restore_ok) ==
    IF ~instantiate_ok
    THEN [out |-> Err([msg |-> "instantiate failed"]), sandbox |-> None]
    ELSE LET restored == guest_call(instantiate, "restore", restore_ok,
                             IF restore_ok
                             THEN restored_guest(snapshot.plugin_state) ELSE 0)
         IN  IF ~restore_ok
             THEN [out |-> Err([msg |-> "restore failed"]),
                   sandbox |-> Some(restored)]
             ELSE [out |-> Ok(from_snapshot(algo_id, snapshot)),
                   sandbox |-> Some(restored)]

\* WasmAlgorithm::from_snapshot with its guest calls: instantiate, init (its
\* result dropped), restore (its failure returned).
from_snapshot_calls(algo_id, snapshot, instantiate_ok, init_answer, restore_ok) ==
    IF ~instantiate_ok
    THEN [out |-> Err([msg |-> "instantiate failed"]), sandbox |-> None]
    ELSE LET inited == guest_call(instantiate, "init", init_answer.kind # "trap",
                                  IF init_answer.kind = "trap" THEN 0 ELSE 1)
             restored == guest_call(inited, "restore", restore_ok,
                             IF restore_ok
                             THEN restored_guest(snapshot.plugin_state)
                             ELSE inited.g)
         IN  IF ~restore_ok
             THEN [out |-> Err([msg |-> "restore failed"]),
                   sandbox |-> Some(restored)]
             ELSE [out |-> Ok(from_snapshot(algo_id, snapshot)),
                   sandbox |-> Some(restored)]

\* Snapshots handed to from_snapshot and what the guest answers afterwards.
Statuses == {"Working"} \cup Terminal
Snapshots ==
    {[plugin |-> PluginContext, plugin_state |-> ps, status |-> st,
      next_client_seq |-> n] :
        ps \in {Null, Json(1), Json(2)}, st \in Statuses, n \in {0, 1}}
RestoredAnswers ==
    {[kind |-> "trap"], [kind |-> "malformed"],
     [kind |-> "result", orders |-> <<>>, completed |-> FALSE],
     [kind |-> "result", orders |-> <<PlaceAuto>>, completed |-> TRUE]}

RestoreIdle ==
    [pc |-> "loaded", snapshot |-> state(WasmAlgorithm_new(PluginContext)),
     sandbox |-> None, algo |-> None, out |-> Err(NotCalled), served |-> 0]

FromSnapshot ==
    /\ restore.pc = "loaded"
    /\ \E instantiate_ok \in BOOLEAN, init_answer \in RestoredAnswers,
          restore_ok \in BOOLEAN :
          LET r == from_snapshot_calls(AlgoId, restore.snapshot, instantiate_ok,
                                       init_answer, restore_ok)
          IN  restore' = [restore EXCEPT
                  !.pc = IF r.out.ok THEN "restored" ELSE "failed",
                  !.sandbox = r.sandbox,
                  !.algo = IF r.out.ok THEN Some(r.out.val) ELSE None,
                  !.out = IF r.out.ok THEN Ok("restored") ELSE r.out]
    /\ UNCHANGED notRestore

\* A callback of the restored algorithm: entries lists the guest entry points
\* it runs, the guest call and, once its result is decoded, snapshot.
RestoredCallback(r, entries) ==
    /\ restore' = [restore EXCEPT
          !.algo = Some(r.a),
          !.sandbox = Some([g |-> r.a.instance,
                            calls |-> restore.sandbox.v.calls \o entries]),
          !.served = @ + 1]
    /\ UNCHANGED notRestore

\* The entry points call_init / call_tick / call_fill / call_timer run: the
\* guest call, then snapshot unless the call or decode_result failed.
entries_of(entry, answer, snapshot_ok) ==
    IF answer.kind = "result"
    THEN <<Ran(entry, TRUE), Ran("snapshot", snapshot_ok)>>
    ELSE <<Ran(entry, answer.kind # "trap")>>

CanServe == restore.pc = "restored" /\ restore.served < MaxRestoredCalls

RestoredStart ==
    /\ CanServe
    /\ \E answer \in RestoredAnswers, snapshot_ok \in BOOLEAN :
          RestoredCallback(start(restore.algo.v, answer, snapshot_ok),
                           IF restore.algo.v.started THEN <<>>
                           ELSE entries_of("init", answer, snapshot_ok))

RestoredTick ==
    /\ CanServe
    /\ \E answer \in RestoredAnswers, snapshot_ok \in BOOLEAN :
          RestoredCallback(on_tick(restore.algo.v, answer, snapshot_ok),
                           entries_of("on_tick", answer, snapshot_ok))

RestoredFill ==
    /\ CanServe
    /\ \E answer \in RestoredAnswers, snapshot_ok \in BOOLEAN :
          RestoredCallback(on_fill(restore.algo.v, answer, snapshot_ok),
                           entries_of("on_fill", answer, snapshot_ok))

RestoredTimer ==
    /\ CanServe
    /\ \E answer \in RestoredAnswers, snapshot_ok \in BOOLEAN :
          RestoredCallback(on_timer(restore.algo.v, answer, snapshot_ok),
                           entries_of("on_timer", answer, snapshot_ok))

----------------------------------------------------------------------------
(* Threads calling into one WasmAlgorithm: the exclusive borrow every callback
   takes (&mut self), the Mutex around the instance, and the guest entry
   points in execution *)

Threads == {"t1", "t2"}
Callbacks == {"init", "on_tick", "on_fill", "on_timer"}

ThreadsIdle ==
    [born |-> "new", published |-> FALSE, started |-> FALSE,
     borrow |-> None, mutex |-> None,
     pc |-> [t \in Threads |-> "idle"], entry |-> [t \in Threads |-> "none"],
     running |-> {}, served |-> 0]

\* A borrow checker that lets a second &mut borrow through.
can_borrow_mut_Shared(t) == threads.published

\* `&mut self`: a thread can enter a method of the algorithm only while no
\* other borrow of it is alive.
can_borrow_mut(t) == threads.published /\ ~threads.borrow.some

\* The callback of thread t is over: its borrow ends.
callback_returns(th, t) ==
    [th EXCEPT !.pc[t] = "idle", !.entry[t] = "none", !.borrow = None,
               !.served = @ + 1]

\* WasmAlgorithm::new: the sandbox is instantiated and put under the Mutex; no
\* guest entry point runs.
New(t) ==
    /\ threads.born = "new" /\ ~threads.published
    /\ \A u \in Threads : threads.pc[u] = "idle"
    /\ threads' = [threads EXCEPT !.published = TRUE]
    /\ UNCHANGED notThreads

\* from_snapshot: instance.call_init on the local sandbox.
FromSnapshotInit(t) ==
    /\ threads.born = "snapshot" /\ ~threads.published
    /\ \A u \in Threads : threads.pc[u] = "idle"
    /\ threads' = [threads EXCEPT !.pc[t] = "restore_init",
                                  !.running = @ \cup {<<t, "init">>}]
    /\ UNCHANGED notThreads

\* from_snapshot: init has returned (its result is dropped), call_restore.
FromSnapshotRestore(t) ==
    /\ threads.pc[t] = "restore_init"
    /\ threads' = [threads EXCEPT !.pc[t] = "restore_restore",
                                  !.running = (@ \ {<<t, "init">>})
                                                  \cup {<<t, "restore">>}]
    /\ UNCHANGED notThreads

\* from_snapshot: restore has returned; Ok(Self) with Mutex::new(instance)
\* and started = true, or the error.
FromSnapshotReturns(t) ==
    /\ threads.pc[t] = "restore_restore"
    /\ \E restore_ok \in BOOLEAN :
          threads' = [threads EXCEPT
              !.pc[t] = IF restore_ok THEN "idle" ELSE "failed",
              !.running = @ \ {<<t, "restore">>},
              !.published = restore_ok, !.started = restore_ok]
    /\ UNCHANGED notThreads

\* A thread enters start, on_tick, on_fill or on_timer; start on a started
\* algorithm returns at once.
BeginCallback(t) ==
    /\ threads.pc[t] = "idle" /\ can_borrow_mut(t)
    /\ threads.served < MaxEvents
    /\ \E entry \in Callbacks :
          threads' =
              IF entry = "init" /\ threads.started
              THEN [threads EXCEPT !.served = @ + 1]
              ELSE [threads EXCEPT !.borrow = Some(t), !.pc[t] = "lock",
                                   !.entry[t] = entry]
    /\ UNCHANGED notThreads

\* cancel(&mut self): no guest entry point runs.
CancelCall(t) ==
    /\ threads.pc[t] = "idle" /\ can_borrow_mut(t)
    /\ threads.served < MaxEvents
    /\ threads' = [threads EXCEPT !.served = @ + 1]
    /\ UNCHANGED notThreads

\* self.instance.lock(), then the guest entry point starts.
Lock(t) ==
    /\ threads.pc[t] = "lock" /\ ~threads.mutex.some
    /\ threads' = [threads EXCEPT !.mutex = Some(t), !.pc[t] = "guest",
                                  !.running = @ \cup {<<t, threads.entry[t]>>}]
    /\ UNCHANGED notThreads

\* The guest entry point returns and the guard is dropped; a trap or a result
\* decode_result rejects ends the callback, otherwise refresh_snapshot follows.
GuestReturns(t) ==
    /\ threads.pc[t] = "guest"
    /\ \E answer \in {"result", "trap", "malformed"} :
          LET th == [threads EXCEPT !.mutex = None,
                                    !.running = @ \ {<<t, threads.entry[t]>>}]
          IN  threads' = IF answer = "result"
                         THEN [th EXCEPT !.pc[t] = "relock"]
                         ELSE callback_returns(th, t)
    /\ UNCHANGED notThreads

\* refresh_snapshot: self.instance.lock(), then snapshot starts.
Relock(t) ==
    /\ threads.pc[t] = "relock" /\ ~threads.mutex.some
    /\ threads' = [threads EXCEPT !.mutex = Some(t), !.pc[t] = "snapshot",
                                  !.running = @ \cup {<<t, "snapshot">>}]
    /\ UNCHANGED notThreads

\* snapshot returns, the guard is dropped and the callback returns; call_init
\* sets started once that went well.
SnapshotReturns(t) ==
    /\ threads.pc[t] = "snapshot"
    /\ \E snapshot_ok \in BOOLEAN :
          threads' = callback_returns(
              [threads EXCEPT
                  !.mutex = None, !.running = @ \ {<<t, "snapshot">>},
                  !.started = @ \/ (snapshot_ok /\ threads.entry[t] = "init")],
              t)
    /\ UNCHANGED notThreads

----------------------------------------------------------------------------
(* Routing of fills by the orchestrator: the order_id -> algo_id index, the
   fills already handled, and the on_fill calls each algorithm received *)

Algos == {"A", "B"}
OrderIds == {"x", "y", "z"}

FillsIdle ==
    [index |-> [o \in OrderIds |-> None], seen |-> {},
     deliveries |-> [o \in OrderIds |-> 0],
     on_fill_calls |-> [a \in Algos |-> <<>>]]

\* A successful placement of a child of algorithm a updates the index.
Placed(a, o) ==
    /\ ~fills.index[o].some
    /\ fills' = [fills EXCEPT !.index[o] = Some(a)]
    /\ UNCHANGED notFills

\* A dedupe that lets every delivery through.
already_handled_Never(f, o) == FALSE

\* Idempotent dedupe on order_id.
already_handled(f, o) == o \in f.seen

\* The algorithm that owns a fill, by the index.
owner(f, o) == f.index[o]

\* on_fill(fill) of the orchestrator, for one delivery of the fill of order o:
\* a duplicate is dropped, otherwise the owner's on_fill is called.
OnFillDelivered(o) ==
    /\ fills.index[o].some
    /\ fills.deliveries[o] < MaxDeliveries
    /\ LET f == [fills EXCEPT !.deliveries[o] = @ + 1]
       IN  fills' =
             IF already_handled(f, o) \/ ~owner(f, o).some THEN f
             ELSE [f EXCEPT !.seen = @ \cup {o},
                            !.on_fill_calls[owner(f, o).v] = Append(@, o)]
    /\ UNCHANGED notFills

----------------------------------------------------------------------------
(* StrategyContext: bounded history of candles and ticks *)

Items == {"p", "q"}

\* VecDeque::pop_front: nothing happens on an empty deque.
pop_front(buffer) == IF buffer = <<>> THEN buffer ELSE Tail(buffer)

\* StrategyContext::new
StrategyContext_new(max_history) ==
    [max_history |-> max_history, recent_candles |-> <<>>, recent_ticks |-> <<>>,
     pushed_candles |-> <<>>, pushed_ticks |-> <<>>]

\* push_candle / push_tick on one buffer.
push(buffer, max_history, item) ==
    Append(IF Len(buffer) >= max_history THEN pop_front(buffer) ELSE buffer, item)

push_candle(self, candle) ==
    [self EXCEPT !.recent_candles = push(@, self.max_history, candle),
                 !.pushed_candles = Append(@, candle)]

push_tick(self, tick) ==
    [self EXCEPT !.recent_ticks = push(@, self.max_history, tick),
                 !.pushed_ticks = Append(@, tick)]

HistoryIdle == StrategyContext_new(0)

PushCandle ==
    /\ Len(history.pushed_candles) < MaxPushes
    /\ \E candle \in Items : history' = push_candle(history, candle)
    /\ UNCHANGED notHistory

PushTick ==
    /\ Len(history.pushed_ticks) < MaxPushes
    /\ \E tick \in Items : history' = push_tick(history, tick)
    /\ UNCHANGED notHistory

----------------------------------------------------------------------------
(* RpcStrategy: the transport client, the health flag and the heartbeat
   tasks.  A client and the heartbeat task spawned for it share one id. *)

MAX_HEARTBEAT_FAILURES == 3

ClientIds == 1..MaxClients
EventKinds == {"on_tick", "on_candle", "on_fill", "on_order_book"}
HeartbeatResponses == {"healthy", "unhealthy", "error"}

\* A heartbeat task: where it stands, its failures counter, the response it
\* holds and whether JoinHandle::abort was called on it.
NoTask == [pc |-> "unborn", failures |-> 0, resp |-> "none", aborted |-> FALSE]

\* RpcStrategy::default, with the record of the last event handled.
RpcStrategy_default ==
    [client |-> None, transport_config |-> None, health |-> TRUE,
     heartbeat_handle |-> None,
     max_heartbeat_failures |-> MAX_HEARTBEAT_FAILURES,
     tasks |-> [t \in ClientIds |-> NoTask],
     built |-> 0, pc |-> "idle", event |-> "none", dropped |-> FALSE,
     torn |-> FALSE, handshaken |-> {},
     last |-> [event |-> "none", out |-> "none", on |-> None],
     wrote |-> [by |-> "default", stale |-> FALSE]]

RpcIdle == RpcStrategy_default

\* JoinHandle::abort: a task suspended at an await never runs again; a task
\* that is being polled runs on to its next await; a finished task is
\* left as it is.
abort(task) ==
    CASE task.pc = "waiting" -> [task EXCEPT !.pc = "cancelled", !.aborted = TRUE]
      [] task.pc = "resolved" -> [task EXCEPT !.aborted = TRUE]
      [] OTHER -> task

\* if let Some(handle) = self.heartbeat_handle.take() { handle.abort(); }
take_and_abort(self) ==
    IF self.heartbeat_handle.some
    THEN [self EXCEPT !.heartbeat_handle = None,
                      !.tasks[self.heartbeat_handle.v] = abort(@)]
    ELSE self

\* teardown_client
teardown_client(self) ==
    [take_and_abort(self) EXCEPT
        !.client = None, !.health = FALSE, !.torn = TRUE,
        !.wrote = [by |-> "teardown_client", stale |-> FALSE]]

\* spawn_heartbeat: the previous task is aborted, a new one is spawned with
\* failures = 0.
spawn_heartbeat(self, id) ==
    [take_and_abort(self) EXCEPT
        !.heartbeat_handle = Some(id),
        !.tasks[id] = [NoTask EXCEPT !.pc = "waiting"]]

\* The handler returns: the event in hand is over.
returns(self, out, on) ==
    [self EXCEPT !.pc = "idle", !.event = "none",
                 !.last = [event |-> self.event, out |-> out, on |-> on]]

\* ensure_client that trusts a client whatever the health flag says.
ensure_client_begin_IgnoresHealth(self) ==
    IF self.client.some
    THEN [self EXCEPT !.pc = "forwarding"]
    ELSE IF ~self.transport_config.some
    THEN returns(self, "InvalidConfig", None)
    ELSE [self EXCEPT !.built = @ + 1, !.pc = "connecting"]

\* ensure_client up to client.connect(): a healthy client is returned as it
\* is, an unhealthy one is torn down, and a new client is built.
ensure_client_begin(self) ==
    IF self.client.some /\ self.health
    THEN [self EXCEPT !.pc = "forwarding"]
    ELSE LET s == IF self.client.some THEN teardown_client(self) ELSE self
         IN  IF ~s.transport_config.some
             THEN returns(s, "InvalidConfig", None)
             ELSE [s EXCEPT !.built = @ + 1, !.pc = "connecting"]

\* ensure_client once client.connect() has returned.
after_connect(self, ok) ==
    IF ok THEN [self EXCEPT !.pc = "initializing"]
    ELSE returns(self, "connect failed", None)

\* ensure_client once client.initialize() has returned: on success the health
\* flag is set, the heartbeat spawned and the client installed.
after_initialize(self, response) ==
    CASE response = "error" -> returns(self, "init failed", None)
      [] response = "rejected" -> returns(self, "init rejected", None)
      [] OTHER ->
            [spawn_heartbeat(
                [self EXCEPT !.health = TRUE, !.torn = FALSE,
                             !.handshaken = @ \cup {self.built},
                             !.wrote = [by |-> "ensure_client", stale |-> FALSE]],
                self.built)
             EXCEPT !.client = Some(self.built), !.pc = "forwarding"]

\* The event forwarded on the client: the handler returns Ok whatever the
\* transport answers.
forward(self) == returns(self, "Ok", self.client)

\* One round of the heartbeat loop from the response on: the store to the
\* health flag, the failures counter, the break.  A task aborted meanwhile
\* ends at the next await.
heartbeat_store(self, t) ==
    LET task == self.tasks[t]
        healthy == task.resp = "healthy"
        failures == IF healthy THEN 0 ELSE task.failures + 1
    IN  [self EXCEPT
            !.health = healthy,
            !.wrote = [by |-> "heartbeat", stale |-> task.aborted],
            !.tasks[t] =
                [task EXCEPT
                    !.failures = failures, !.resp = "none",
                    !.pc = IF failures >= self.max_heartbeat_failures THEN "stopped"
                           ELSE IF task.aborted THEN "cancelled"
                           ELSE "waiting"]]

\* configure: a config that parses replaces the transport config and tears the
\* client down; one that does not is an error and changes nothing.
Configure ==
    /\ rpc.pc = "idle" /\ ~rpc.dropped
    /\ \E parses \in BOOLEAN :
          rpc' = IF parses
                 THEN [teardown_client(rpc) EXCEPT !.transport_config = Some("grpc")]
                 ELSE rpc
    /\ UNCHANGED notRpc

\* drop
Drop ==
    /\ rpc.pc = "idle" /\ ~rpc.dropped
    /\ rpc' = [teardown_client(rpc) EXCEPT !.dropped = TRUE]
    /\ UNCHANGED notRpc

\* on_tick, on_candle, on_fill, on_order_book up to the first await.
EventArrives ==
    /\ rpc.pc = "idle" /\ ~rpc.dropped
    /\ \/ rpc.client.some /\ rpc.health
       \/ ~rpc.transport_config.some
       \/ rpc.built < MaxClients
    /\ \E kind \in EventKinds :
          rpc' = ensure_client_begin([rpc EXCEPT !.event = kind])
    /\ UNCHANGED notRpc

ConnectReturns ==
    /\ rpc.pc = "connecting"
    /\ \E ok \in BOOLEAN : rpc' = after_connect(rpc, ok)
    /\ UNCHANGED notRpc

InitializeReturns ==
    /\ rpc.pc = "initializing"
    /\ \E response \in {"success", "rejected", "error"} :
          rpc' = after_initialize(rpc, response)
    /\ UNCHANGED notRpc

Forward ==
    /\ rpc.pc = "forwarding"
    /\ rpc' = forward(rpc)
    /\ UNCHANGED notRpc

\* guard.heartbeat().await returns in task t.
HeartbeatResolves(t) ==
    /\ rpc.tasks[t].pc = "waiting"
    /\ \E resp \in HeartbeatResponses :
          rpc' = [rpc EXCEPT !.tasks[t].pc = "resolved", !.tasks[t].resp = resp]
    /\ UNCHANGED notRpc

\* Task t acts on the response it holds.
HeartbeatStores(t) ==
    /\ rpc.tasks[t].pc = "resolved"
    /\ rpc' = heartbeat_store(rpc, t)
    /\ UNCHANGED notRpc

----------------------------------------------------------------------------
(* Mock exchange: the private-stream sender and the private connections *)

Connections == {"c1", "c2", "c3"}

\* MockExchangeState::new and no connection accepted yet.  rx[c] says
\* whether the forward task of connection c still holds the receiver of its
\* channel; last is the outcome of the last emit_private_message.
MockIdle ==
    [private_ws_sender |-> None,
     conn |-> [c \in Connections |-> "none"],
     rx |-> [c \in Connections |-> FALSE],
     delivered |-> [c \in Connections |-> 0],
     emits |-> 0,
     last |-> [out |-> "none", to |-> None, open |-> FALSE]]

set_private_ws_sender(exch, sender) ==
    [exch EXCEPT !.private_ws_sender = Some(sender)]

clear_private_ws_sender(exch) ==
    [exch EXCEPT !.private_ws_sender = None]

\* handle_private_stream up to its read loop: the channel is made, its sender
\* registered and the forward task spawned.
handle_private_stream_begin(exch, c) ==
    [set_private_ws_sender(exch, c) EXCEPT !.conn[c] = "open", !.rx[c] = TRUE]

\* handle_private_stream from the end of its read loop: a close frame and the
\* end of the stream leave the loop, and the sender is cleared and the forward
\* task aborted; a read error returns from the loop with `?`.
handle_private_stream_end(exch, c, reason) ==
    IF reason = "read error"
    THEN [exch EXCEPT !.conn[c] = "closed"]
    ELSE [clear_private_ws_sender(exch) EXCEPT
              !.conn[c] = "closed", !.rx[c] = FALSE]

\* emit_private_message: no sender, nothing is sent and Ok is returned; a
\* sender whose receiver is gone gives an error.  What the forward task does
\* with the message: it reaches the client of an open connection; on a closed
\* one the write fails (the task ends) or is lost.
emit_private_message(exch, sink_ok) ==
    LET tx == exch.private_ws_sender
        open == \E c \in Connections : exch.conn[c] = "open"
        s == [exch EXCEPT !.emits = @ + 1]
    IN  IF ~tx.some
        THEN [s EXCEPT !.last = [out |-> "Ok", to |-> None, open |-> open]]
        ELSE IF ~exch.rx[tx.v]
        THEN [s EXCEPT !.last = [out |-> "failed to deliver", to |-> tx,
                                 open |-> open]]
        ELSE [s EXCEPT
                !.last = [out |-> "Ok", to |-> tx, open |-> open],
                !.delivered[tx.v] =
                    IF exch.conn[tx.v] = "open" THEN @ + 1 ELSE @,
                !.rx[tx.v] = exch.conn[tx.v] = "open" \/ sink_ok]

\* A private WebSocket connection is accepted and its handler starts.
PrivateConnects(c) ==
    /\ mock.conn[c] = "none"
    /\ mock' = handle_private_stream_begin(mock, c)
    /\ UNCHANGED notMock

\* The read loop of connection c ends.
PrivateEnds(c) ==
    /\ mock.conn[c] = "open"
    /\ \E reason \in {"close frame", "end of stream", "read error"} :
          mock' = handle_private_stream_end(mock, c, reason)
    /\ UNCHANGED notMock

\* The exchange emits a private message.
EmitPrivateMessage ==
    /\ mock.emits < MaxEmits
    /\ \E sink_ok \in BOOLEAN : mock' = emit_private_message(mock, sink_ok)
    /\ UNCHANGED notMock

----------------------------------------------------------------------------
(* Specifications *)

SizerInit ==
    /\ sizer \in {[sz |-> sz, equity |-> e, price |-> p, called |-> FALSE,
                   out |-> Err(NotCalled)] :
                     sz \in Sizers, e \in Equities, p \in Prices}
    /\ risk = RiskIdle
    /\ engine = EngineIdle
    /\ algo = AlgoIdle
    /\ orch = OrchIdle
    /\ restore = RestoreIdle
    /\ threads = ThreadsIdle
    /\ fills = FillsIdle
    /\ history = HistoryIdle
    /\ rpc = RpcIdle
    /\ mock = MockIdle

SizerNext == FixedSize \/ PercentSize \/ RiskAdjustedSize

SpecSizer == SizerInit /\ [][SizerNext]_vars

RiskInit ==
    /\ sizer = SizerIdle
    /\ engine = EngineIdle
    /\ algo = AlgoIdle
    /\ orch = OrchIdle
    /\ restore = RestoreIdle
    /\ threads = ThreadsIdle
    /\ fills = FillsIdle
    /\ history = HistoryIdle
    /\ rpc = RpcIdle
    /\ mock = MockIdle
    /\ \E mo \in OrderLimits, mp \in PositionLimits, side \in Sides,
          q \in RequestQuantities, pos \in Positions, lo \in BOOLEAN :
          LET raw == [max_order_quantity |-> mo, max_position_quantity |-> mp]
          IN  risk = [raw |-> raw,
                      checker |-> BasicRiskChecker_new(raw),
                      request |-> [side |-> side, quantity |-> q],
                      ctx |-> [signed_position_qty |-> pos, liquidate_only |-> lo],
                      called |-> FALSE, out |-> Err(NotCalled)]

RiskNext == RiskCheck

SpecRisk == RiskInit /\ [][RiskNext]_vars

EngineInit ==
    /\ sizer = SizerIdle
    /\ risk = RiskIdle
    /\ algo = AlgoIdle
    /\ orch = OrchIdle
    /\ restore = RestoreIdle
    /\ threads = ThreadsIdle
    /\ fills = FillsIdle
    /\ history = HistoryIdle
    /\ rpc = RpcIdle
    /\ mock = MockIdle
    /\ engine \in {ExecutionEngine_new(sz, rk) : sz \in EngineSizers,
                                                 rk \in EngineCheckers}

EngineNext ==
    HandleSignal \/ ParentReturns \/ StopLossReturns \/ TakeProfitReturns

SpecEngine == EngineInit /\ [][EngineNext]_vars

WasmInit ==
    /\ sizer = SizerIdle
    /\ risk = RiskIdle
    /\ engine = EngineIdle
    /\ algo = AlgoIdle
    /\ orch = OrchIdle
    /\ restore = RestoreIdle
    /\ threads = ThreadsIdle
    /\ fills = FillsIdle
    /\ history = HistoryIdle
    /\ rpc = RpcIdle
    /\ mock = MockIdle

WasmNext ==
    \/ Submit \/ Start \/ OnTick \/ OnFill \/ OnTimer \/ Cancel
    \/ Dispatch \/ Persist \/ Crash \/ Restore

SpecWasm == WasmInit /\ [][WasmNext]_vars

RestoreInit ==
    /\ sizer = SizerIdle
    /\ risk = RiskIdle
    /\ engine = EngineIdle
    /\ algo = AlgoIdle
    /\ orch = OrchIdle
    /\ restore \in {[RestoreIdle EXCEPT !.snapshot = s] : s \in Snapshots}
    /\ threads = ThreadsIdle
    /\ fills = FillsIdle
    /\ history = HistoryIdle
    /\ rpc = RpcIdle
    /\ mock = MockIdle

RestoreNext ==
    FromSnapshot \/ RestoredStart \/ RestoredTick \/ RestoredFill \/ RestoredTimer

SpecRestore == RestoreInit /\ [][RestoreNext]_vars

ThreadsInit ==
    /\ sizer = SizerIdle
    /\ risk = RiskIdle
    /\ engine = EngineIdle
    /\ algo = AlgoIdle
    /\ orch = OrchIdle
    /\ restore = RestoreIdle
    /\ threads \in {[ThreadsIdle EXCEPT !.born = b] : b \in {"new", "snapshot"}}
    /\ fills = FillsIdle
    /\ history = HistoryIdle
    /\ rpc = RpcIdle
    /\ mock = MockIdle

ThreadsNext ==
    \E t \in Threads :
        \/ New(t) \/ FromSnapshotInit(t) \/ FromSnapshotRestore(t)
        \/ FromSnapshotReturns(t) \/ BeginCallback(t) \/ CancelCall(t)
        \/ Lock(t) \/ GuestReturns(t) \/ Relock(t) \/ SnapshotReturns(t)

SpecThreads == ThreadsInit /\ [][ThreadsNext]_vars

FillsInit ==
    /\ sizer = SizerIdle
    /\ risk = RiskIdle
    /\ engine = EngineIdle
    /\ algo = AlgoIdle
    /\ orch = OrchIdle
    /\ restore = RestoreIdle
    /\ threads = ThreadsIdle
    /\ fills = FillsIdle
    /\ history = HistoryIdle
    /\ rpc = RpcIdle
    /\ mock = MockIdle

FillsNext ==
    \/ \E a \in Algos, o \in OrderIds : Placed(a, o)
    \/ \E o \in OrderIds : OnFillDelivered(o)

SpecFills == FillsInit /\ [][FillsNext]_vars

HistoryInit ==
    /\ sizer = SizerIdle
    /\ risk = RiskIdle
    /\ engine = EngineIdle
    /\ algo = AlgoIdle
    /\ orch = OrchIdle
    /\ restore = RestoreIdle
    /\ threads = ThreadsIdle
    /\ fills = FillsIdle
    /\ history \in {StrategyContext_new(n) : n \in 0..MaxHistory}
    /\ rpc = RpcIdle
    /\ mock = MockIdle

HistoryNext == PushCandle \/ PushTick

SpecHistory == HistoryInit /\ [][HistoryNext]_vars

RpcInit ==
    /\ sizer = SizerIdle
    /\ risk = RiskIdle
    /\ engine = EngineIdle
    /\ algo = AlgoIdle
    /\ orch = OrchIdle
    /\ restore = RestoreIdle
    /\ threads = ThreadsIdle
    /\ fills = FillsIdle
    /\ history = HistoryIdle
    /\ rpc = RpcStrategy_default
    /\ mock = MockIdle

RpcNext ==
    \/ Configure \/ Drop \/ EventArrives \/ ConnectReturns
    \/ InitializeReturns \/ Forward
    \/ \E t \in ClientIds : HeartbeatResolves(t) \/ HeartbeatStores(t)

SpecRpc == RpcInit /\ [][RpcNext]_vars

MockInit ==
    /\ sizer = SizerIdle
    /\ risk = RiskIdle
    /\ engine = EngineIdle
    /\ algo = AlgoIdle
    /\ orch = OrchIdle
    /\ restore = RestoreIdle
    /\ threads = ThreadsIdle
    /\ fills = FillsIdle
    /\ history = HistoryIdle
    /\ rpc = RpcIdle
    /\ mock = MockIdle

MockNext ==
    \/ \E c \in Connections : PrivateConnects(c) \/ PrivateEnds(c)
    \/ EmitPrivateMessage

SpecMock == MockInit /\ [][MockNext]_vars

----------------------------------------------------------------------------
(* Properties of the risk checker *)

\* x > 0.0 for an f64 x.
F64Positive(x) == x.k = "inf" \/ (x.k = "fin" /\ DecGt(x.d, ZERO))
\* f64 x <= 0.0 (false for NaN).
F64NonPositive(x) == x.k = "ninf" \/ (x.k = "fin" /\ DecLe(x.d, ZERO))
\* Decimal d > f64 x.
Exceeds(d, x) == x.k = "ninf" \/ (x.k = "fin" /\ DecGt(d, x.d))

RiskQty == DecAbs(risk.request.quantity)
RiskPosition == risk.ctx.signed_position_qty
RiskProjected ==
    IF risk.request.side = "Buy"
    THEN Dec(AtScale(RiskPosition, 1) + AtScale(RiskQty, 1), 1)
    ELSE Dec(AtScale(RiskPosition, 1) - AtScale(RiskQty, 1), 1)
RiskMaxOrder == risk.checker.limits.max_order_quantity
RiskMaxPosition == risk.checker.limits.max_position_quantity
RiskTag == IF risk.out.ok THEN "Ok" ELSE risk.out.err.tag

OrderSizeViolated == F64Positive(RiskMaxOrder) /\ Exceeds(RiskQty, RiskMaxOrder)
PositionViolated ==
    F64Positive(RiskMaxPosition) /\ Exceeds(DecAbs(RiskProjected), RiskMaxPosition)
ReducesExposure ==
    \/ (RiskPosition.m > 0 /\ risk.request.side = "Sell")
    \/ (RiskPosition.m < 0 /\ risk.request.side = "Buy")
LiquidateViolated ==
    /\ risk.ctx.liquidate_only
    /\ ~(RiskPosition.m # 0 /\ ReducesExposure /\ DecLe(RiskQty, DecAbs(RiskPosition)))

\* C3: an accepted request keeps the projected position within a positive
\* max_position_quantity, and a projected position beyond it is rejected with
\* MaxPositionExposure unless the order-size rule fired first.
C3_PositionLimitRespected ==
    (risk.called /\ F64Positive(RiskMaxPosition)) =>
        /\ risk.out.ok => ~Exceeds(DecAbs(RiskProjected), RiskMaxPosition)
        /\ (Exceeds(DecAbs(RiskProjected), RiskMaxPosition)
                /\ RiskTag # "MaxOrderSize") =>
              /\ RiskTag = "MaxPositionExposure"
              /\ DecEq(risk.out.err.projected.d, RiskProjected)
              /\ risk.out.err.limit = RiskMaxPosition

\* C3 witness: a Sell accepted with the projected position exactly at the limit.
C3_Witness ==
    /\ risk.called /\ risk.out.ok
    /\ RiskMaxPosition = Fin(4, 0)
    /\ risk.request.side = "Sell"
    /\ DecEq(RiskProjected, Dec(-4, 0))

\* C4: the first violated rule, in the order order-size, position-exposure,
\* liquidate-only, is the one reported.
C4_FirstViolationWins ==
    risk.called =>
        /\ OrderSizeViolated => RiskTag = "MaxOrderSize"
        /\ (~OrderSizeViolated /\ PositionViolated) => RiskTag = "MaxPositionExposure"
        /\ (~OrderSizeViolated /\ ~PositionViolated /\ LiquidateViolated) =>
              RiskTag = "LiquidateOnly"
        /\ (~OrderSizeViolated /\ ~PositionViolated /\ ~LiquidateViolated) =>
              RiskTag = "Ok"

\* C4 witness: a request violating all three rules is reported as MaxOrderSize.
C4_Witness ==
    /\ risk.called
    /\ OrderSizeViolated /\ PositionViolated /\ LiquidateViolated
    /\ RiskTag = "MaxOrderSize"

\* C5: in liquidate-only mode with no quantity limit violated, the request is
\* accepted exactly when the position is non-zero, the side reduces it and
\* |quantity| <= |position|, and is rejected with LiquidateOnly otherwise.
C5_LiquidateOnly ==
    (risk.called /\ risk.ctx.liquidate_only
        /\ ~OrderSizeViolated /\ ~PositionViolated) =>
        /\ risk.out.ok <=>
              /\ RiskPosition.m # 0
              /\ ReducesExposure
              /\ DecLe(RiskQty, DecAbs(RiskPosition))
        /\ ~risk.out.ok => risk.out.err = LiquidateOnly
        /\ DecEq(RiskPosition, Dec(5, 0)) =>
              /\ (risk.request.side = "Sell" /\ DecEq(RiskQty, Dec(3, 0))) =>
                    risk.out.ok
              /\ (risk.request.side = "Sell" /\ DecEq(RiskQty, Dec(6, 0))) =>
                    RiskTag = "LiquidateOnly"
              /\ (risk.request.side = "Buy" /\ DecEq(RiskQty, Dec(1, 0))) =>
                    RiskTag = "LiquidateOnly"

\* C5 witness: position +5, liquidate-only, Sell 6 is rejected as a flip.
C5_Witness ==
    /\ risk.called /\ risk.ctx.liquidate_only
    /\ ~OrderSizeViolated /\ ~PositionViolated
    /\ DecEq(RiskPosition, Dec(5, 0))
    /\ risk.request.side = "Sell" /\ DecEq(RiskQty, Dec(6, 0))
    /\ RiskTag = "LiquidateOnly"

\* C6: MaxOrderSize{|quantity|, limit} is returned exactly when
\* max_order_quantity > 0 and |quantity| > max_order_quantity; limits
\* {max_order = 1, max_position = 0} and quantity 2 give MaxOrderSize{2, 1}.
C6_MaxOrderSize ==
    risk.called =>
        /\ RiskTag = "MaxOrderSize" <=>
              (F64Positive(RiskMaxOrder) /\ Exceeds(RiskQty, RiskMaxOrder))
        /\ RiskTag = "MaxOrderSize" =>
              risk.out.err = MaxOrderSize(to_f64(RiskQty), RiskMaxOrder)
        /\ (risk.raw.max_order_quantity = Fin(1, 0)
                /\ risk.raw.max_position_quantity = Fin(0, 0)
                /\ risk.request.quantity = Dec(2, 0)) =>
              risk.out = Err(MaxOrderSize(Fin(2, 0), Fin(1, 0)))

\* C6 witness: a quantity equal to the limit passes the order-size rule.
C6_Witness ==
    /\ risk.called
    /\ RiskMaxOrder = Fin(1, 0)
    /\ risk.request.quantity = Dec(1, 0)
    /\ RiskTag # "MaxOrderSize"

\* f64 x >= 0.0 (false for NaN).
F64NonNegative(x) == x.k = "inf" \/ (x.k = "fin" /\ DecLe(ZERO, x.d))
\* A raw limit that is negative or NaN.
NegativeOrNaN(x) == x.k \in {"nan", "ninf"} \/ (x.k = "fin" /\ DecLt(x.d, ZERO))

\* C28: the limits of a BasicRiskChecker are >= 0, a negative or NaN raw limit
\* having become 0; a zero limit disables its rule, so a raw limit that is
\* negative or NaN never gives MaxOrderSize / MaxPositionExposure.
C28_SanitizedLimits ==
    /\ F64NonNegative(RiskMaxOrder) /\ F64NonNegative(RiskMaxPosition)
    /\ NegativeOrNaN(risk.raw.max_order_quantity) => RiskMaxOrder = Fin(0, 0)
    /\ NegativeOrNaN(risk.raw.max_position_quantity) => RiskMaxPosition = Fin(0, 0)
    /\ risk.called =>
          /\ RiskMaxOrder = Fin(0, 0) => RiskTag # "MaxOrderSize"
          /\ RiskMaxPosition = Fin(0, 0) => RiskTag # "MaxPositionExposure"

\* C28 witness: limits {-1, NaN} let an order of 6 through that takes the
\* position to 11.
C28_Witness ==
    /\ risk.called /\ risk.out.ok
    /\ risk.raw.max_order_quantity = Fin(-1, 0)
    /\ risk.raw.max_position_quantity = NaN
    /\ risk.request.side = "Buy"
    /\ DecEq(RiskQty, Dec(6, 0)) /\ DecEq(RiskProjected, Dec(11, 0))

----------------------------------------------------------------------------
(* Properties of the sizers *)

\* C9: every quantity a sizer returns as Ok is >= 0.
C9_SizedQuantityNonNegative ==
    (sizer.called /\ sizer.out.ok) => DecLe(ZERO, sizer.out.val)

\* |r * d - n| <= d * 10^-MaxScale / 2: r is the quotient n / d rounded to
\* MaxScale fractional digits (and the exact quotient when that has at most
\* MaxScale digits).
IsRoundedQuotient(r, n, d) ==
    /\ r.s <= MaxScale
    /\ DecLe(DecMul(Dec(2, 0), DecAbs(DecSub(DecMul(r, d), n))),
             DecMul(d, Dec(1, MaxScale)))

PercentExample ==
    /\ sizer.sz = PercentSizer(Fin(5, 2))
    /\ sizer.equity = Dec(25000, 0)
    /\ sizer.price = Dec(50000, 0)

RiskAdjustedCalled == sizer.called /\ sizer.sz.variant = "RiskAdjusted"

----------------------------------------------------------------------------
(* Properties of the execution engine *)

EngineChecked(leg) == \E j \in DOMAIN engine.checks : engine.checks[j].leg = leg
EngineCalled(leg, outcomes) ==
    \E i \in DOMAIN engine.calls :
        engine.calls[i].leg = leg /\ engine.calls[i].outcome \in outcomes

\* C7: once the parent is placed, handle_signal returns Some(parent) whatever
\* the risk checker or the client answer for the stop-loss and take-profit
\* legs; the parent stays as placed, and the take-profit leg is attempted
\* whatever became of the stop-loss leg.
C7_ProtectiveLegsBestEffort ==
    engine.order.some =>
        /\ engine.pc \in {"sl", "tp", "done"}
        /\ engine.calls[1].leg = "parent" /\ engine.calls[1].outcome = "Ok"
        /\ engine.order.v.request = engine.calls[1].request
        /\ engine.pc = "done" =>
              /\ engine.result = Ok(Some(engine.order.v))
              /\ (engine.signal.kind # "Flatten" /\ engine.signal.take_profit.some)
                    => EngineChecked("tp")

\* C7 witness: the stop-loss placement failed with a network error, the
\* take-profit leg was still attempted and the parent was returned.
C7_Witness ==
    /\ engine.pc = "done" /\ engine.order.some
    /\ EngineCalled("sl", {"Network"})
    /\ EngineChecked("tp")
    /\ engine.result = Ok(Some(engine.order.v))

\* C8: every request handed to the client's place_order was accepted by the
\* engine's risk checker under the RiskContext given to handle_signal, and no
\* request the checker rejected reaches the client.
C8_ClientSeesOnlyCheckedRequests ==
    /\ \A i \in DOMAIN engine.calls :
          /\ PreTradeRiskChecker_check(engine.risk, engine.calls[i].request,
                                       engine.ctx).ok
          /\ \E j \in DOMAIN engine.checks :
                /\ engine.checks[j].leg = engine.calls[i].leg
                /\ engine.checks[j].request = engine.calls[i].request
                /\ engine.checks[j].verdict.ok
    /\ \A j \in DOMAIN engine.checks :
          ~engine.checks[j].verdict.ok =>
              ~\E i \in DOMAIN engine.calls :
                    engine.calls[i].leg = engine.checks[j].leg

\* C8 witness: the parent passed the basic checker and was placed, the
\* stop-loss was rejected by it and never reached the client.
C8_Witness ==
    /\ engine.pc = "done" /\ engine.risk.kind = "Basic"
    /\ EngineCalled("parent", {"Ok"})
    /\ \E j \in DOMAIN engine.checks :
          engine.checks[j].leg = "sl" /\ ~engine.checks[j].verdict.ok
    /\ ~EngineCalled("sl", {"pending", "Ok", "Network", "Rejected"})

\* handle_signal has been called, and what its sizer answered.
EngineStarted == engine.pc # "idle"
EngineSized ==
    OrderSizer_size(engine.sizer, engine.ctx.portfolio_equity, engine.ctx.last_price)
EngineLegs == {engine.checks[j].leg : j \in DOMAIN engine.checks}
EngineNothingSent == engine.checks = <<>> /\ engine.calls = <<>>

\* C12: whenever the sized quantity is positive the first request built is the
\* parent: a Market order with no price and no trigger price, of the sized
\* quantity, with client_order_id = signal.id, Buy for EnterLong and ExitShort
\* and Sell for EnterShort, ExitLong and Flatten.
C12_ParentRequest ==
    /\ (EngineStarted /\ EngineSized.ok /\ DecGt(EngineSized.val, ZERO)) =>
          (engine.checks # <<>> /\ engine.checks[1].leg = "parent")
    /\ \A j \in DOMAIN engine.checks :
          engine.checks[j].leg = "parent" =>
              LET r == engine.checks[j].request
              IN  /\ j = 1
                  /\ r.order_type = "Market"
                  /\ r.price = None /\ r.trigger_price = None
                  /\ EngineSized.ok /\ r.quantity = EngineSized.val
                  /\ r.symbol = engine.signal.symbol
                  /\ r.client_order_id = Some([id |-> engine.signal.id, suffix |-> ""])
                  /\ r.side = IF engine.signal.kind \in {"EnterLong", "ExitShort"}
                              THEN "Buy" ELSE "Sell"

\* C12 witness: the parent of an ExitShort signal was placed as a Buy.
C12_Witness ==
    /\ engine.signal.kind = "ExitShort"
    /\ \E i \in DOMAIN engine.calls :
          /\ engine.calls[i].leg = "parent" /\ engine.calls[i].outcome = "Ok"
          /\ engine.calls[i].request.side = "Buy"
          /\ engine.calls[i].request.order_type = "Market"

\* C13: when the sizer returns a quantity <= 0, handle_signal returns Ok(None)
\* at once: no request is risk-checked and none reaches the client.
C13_NonPositiveQuantitySkipped ==
    (EngineStarted /\ EngineSized.ok /\ DecLe(EngineSized.val, ZERO)) =>
        /\ engine.pc = "done"
        /\ engine.result = Ok(None)
        /\ EngineNothingSent

\* C13 witness: a signal with both protective prices sized at 0 was skipped.
C13_Witness ==
    /\ engine.pc = "done" /\ engine.sizer = FixedSizer(ZERO)
    /\ engine.signal.stop_loss.some /\ engine.signal.take_profit.some
    /\ engine.result = Ok(None) /\ EngineNothingSent

\* C14: when the risk check of the parent fails, handle_signal returns
\* Broker.InvalidRequest carrying the risk error, the parent is the only
\* request ever checked and nothing reaches the client.
C14_ParentRejected ==
    \A j \in DOMAIN engine.checks :
        (engine.checks[j].leg = "parent" /\ ~engine.checks[j].verdict.ok) =>
            /\ engine.pc = "done"
            /\ engine.result = Err(BrokerInvalidRequest(engine.checks[j].verdict.err))
            /\ Len(engine.checks) = 1
            /\ engine.calls = <<>>
            /\ ~engine.order.some

\* C14 witness: the parent of a signal with a stop-loss and a take-profit was
\* rejected for its size and the signal failed with InvalidRequest.
C14_Witness ==
    /\ engine.pc = "done"
    /\ engine.signal.stop_loss.some /\ engine.signal.take_profit.some
    /\ engine.checks # <<>> /\ ~engine.checks[1].verdict.ok
    /\ engine.checks[1].verdict.err.tag = "MaxOrderSize"
    /\ ~engine.result.ok /\ engine.result.err.broker = "InvalidRequest"
    /\ engine.calls = <<>>

\* The sizer of the engine holds a NaN or infinite percent or risk fraction.
EngineSizerNonFinite ==
    \/ engine.sizer.variant = "Percent" /\ ~is_finite(engine.sizer.percent)
    \/ engine.sizer.variant = "RiskAdjusted" /\ ~is_finite(engine.sizer.risk_fraction)

\* C15: when the sizer returns an error handle_signal returns Broker.Other
\* carrying it and nothing is checked or placed; a non-finite percent or risk
\* fraction always is such an error.
C15_SizerErrorIsBrokerOther ==
    /\ (EngineStarted /\ ~EngineSized.ok) =>
          /\ engine.pc = "done"
          /\ engine.result = Err(BrokerOther(EngineSized.err))
          /\ EngineNothingSent
    /\ (EngineStarted /\ EngineSizerNonFinite) =>
          /\ ~engine.result.ok /\ engine.result.err.broker = "Other"
          /\ EngineNothingSent

\* C15 witness: a NaN percent at a positive price failed the signal with
\* Broker.Other carrying the must-be-finite error.
C15_Witness ==
    /\ engine.pc = "done" /\ engine.sizer = PercentSizer(NaN)
    /\ DecGt(engine.ctx.last_price, ZERO)
    /\ engine.result = Err(BrokerOther(NonFinite("allocation percent")))
    /\ EngineNothingSent

\* C16: for a Flatten signal only the parent is ever built, checked or sent,
\* and once it is placed handle_signal returns it, whatever stop_loss and
\* take_profit the signal carries.
C16_FlattenParentOnly ==
    (EngineStarted /\ engine.signal.kind = "Flatten") =>
        /\ Len(engine.checks) <= 1 /\ Len(engine.calls) <= 1
        /\ EngineLegs \subseteq {"parent"}
        /\ engine.warnings = <<>>
        /\ engine.order.some =>
              (engine.pc = "done" /\ engine.result = Ok(Some(engine.order.v)))

\* C16 witness: a Flatten signal with a stop-loss and a take-profit placed its
\* parent alone and returned it.
C16_Witness ==
    /\ engine.pc = "done" /\ engine.signal.kind = "Flatten"
    /\ engine.signal.stop_loss.some /\ engine.signal.take_profit.some
    /\ Len(engine.calls) = 1 /\ engine.calls[1].outcome = "Ok"
    /\ engine.result = Ok(Some(engine.order.v))

\* The protective request handle_signal is to build for a leg.
ExpectedProtective(leg) ==
    [symbol |-> engine.signal.symbol,
     side |-> IF engine.signal.kind \in {"EnterLong", "ExitShort"}
              THEN "Sell" ELSE "Buy",
     order_type |-> "StopMarket",
     quantity |-> engine.checks[1].request.quantity,
     price |-> None,
     trigger_price |-> IF leg = "sl" THEN engine.signal.stop_loss
                       ELSE engine.signal.take_profit,
     time_in_force |-> None,
     client_order_id |-> Some([id |-> engine.signal.id,
                               suffix |-> IF leg = "sl" THEN "-sl" ELSE "-tp"]),
     take_profit |-> None, stop_loss |-> None, display_quantity |-> None]

\* C17: a protective leg is built only for a signal field that is set and
\* after the parent was placed; it is a StopMarket on the side opposite to the
\* parent, of the parent's quantity, triggered at the signal's stop_loss
\* (take_profit), with client_order_id "<signal.id>-sl" ("<signal.id>-tp");
\* the client_order_ids of one signal are pairwise distinct.
C17_ProtectiveLegs ==
    /\ \A j \in DOMAIN engine.checks :
          engine.checks[j].leg \in {"sl", "tp"} =>
              /\ engine.order.some
              /\ engine.signal.kind \in {"EnterLong", "ExitShort",
                                         "EnterShort", "ExitLong"}
              /\ engine.checks[j].request.trigger_price.some
              /\ engine.checks[j].request = ExpectedProtective(engine.checks[j].leg)
              /\ engine.checks[j].request.side # engine.checks[1].request.side
    /\ \A i, j \in DOMAIN engine.checks :
          i # j => engine.checks[i].request.client_order_id
                      # engine.checks[j].request.client_order_id

\* C17 witness: an EnterShort signal placed its parent (Sell), its stop-loss
\* and its take-profit (both Buy StopMarket).
C17_Witness ==
    /\ engine.pc = "done" /\ engine.signal.kind = "EnterShort"
    /\ Len(engine.calls) = 3
    /\ \A i \in 1..3 : engine.calls[i].outcome = "Ok"
    /\ engine.calls[1].request.side = "Sell"
    /\ engine.calls[2].leg = "sl" /\ engine.calls[2].request.side = "Buy"
    /\ engine.calls[3].leg = "tp" /\ engine.calls[3].request.side = "Buy"

----------------------------------------------------------------------------
(* Properties of the WASM plugin adapter *)

\* C1: while the algorithm object lives, a status of Completed, Cancelled or
\* Failed never changes again, whatever callbacks follow.
C1_TerminalStatusSticky ==
    [][(orch.alive /\ orch.alive' /\ algo.status \in Terminal)
          => algo'.status = algo.status]_vars

\* C2: no two orders are placed under the same host-assigned client_order_id,
\* crashes and restores included.
C2_HostIdsNeverReused ==
    \A i, j \in DOMAIN orch.placed :
        i # j => orch.placed[i] # orch.placed[j]

\* The orders of the guest result the callback in hand decoded.
ResultOrders(raw) ==
    IF raw.some /\ raw.v.kind = "result" THEN raw.v.orders ELSE <<>>
\* How many of the first i orders are Place actions without client_order_id.
CountAuto(orders, i) == Cardinality({k \in 1..i : orders[k] = PlaceAuto})

\* The child-order request a guest order is to become when seq host ids were
\* assigned up to and including it.
ExpectedChild(id, order, seq) ==
    [parent_algo_id |-> id,
     action |-> IF order.action = "place" THEN "Place" ELSE "Amend",
     client_order_id |-> IF order = PlaceAuto THEN Some(client_id(id, seq))
                         ELSE order.client_order_id]

\* One step of a live algorithm, as C18 wants it.
C18_Step ==
    LET n == algo.next_client_seq
        orders == ResultOrders(orch'.raw)
    IN  /\ (orch.pc = "new" /\ orch'.alive) => algo'.next_client_seq = 0
        /\ (orch.alive /\ orch'.alive) =>
              /\ state(algo').next_client_seq = algo'.next_client_seq
              /\ IF orch'.events = orch.events + 1
                 THEN /\ algo'.next_client_seq = n + CountAuto(orders, Len(orders))
                      /\ orch'.out.ok =>
                            /\ Len(orch'.out.val) = Len(orders)
                            /\ \A i \in DOMAIN orders :
                                  orch'.out.val[i] =
                                      ExpectedChild(algo.id, orders[i],
                                                    n + CountAuto(orders, i))
                 ELSE algo'.next_client_seq = n

\* C18: a new algorithm starts with sequence 0; each callback advances
\* next_client_seq by exactly the number of Place actions without
\* client_order_id in the decoded result, the k-th of them getting the id of
\* sequence n + k; Places with their own id and Amends keep what they have; no
\* other step changes the sequence; the snapshot of state() carries it.
C18_HostSequence == [][C18_Step]_vars

\* C18 witness: after sequence 1 was assigned earlier, a result <<Place with
\* its own id, Place without>> was decoded and the second got sequence 2.
C18_Witness ==
    /\ orch.alive /\ orch.raw.some /\ orch.out.ok
    /\ ResultOrders(orch.raw) = <<PlaceOwn, PlaceAuto>>
    /\ orch.out.val[1].client_order_id = PlaceOwn.client_order_id
    /\ orch.out.val[2].client_order_id = Some(client_id(AlgoId, 2))
    /\ state(algo).next_client_seq = 2

\* The guest result the callback in hand decoded is completed.
CompletedResult ==
    orch.alive /\ orch.raw.some /\ orch.raw.v.kind = "result" /\ orch.raw.v.completed

\* C19: after a guest result with completed = true the status is Completed and
\* the callback returned one child-order request per order of that result, in
\* order; it returned none only when the guest's snapshot failed.
C19_CompletedKeepsOrders ==
    CompletedResult =>
        /\ algo.status = "Completed"
        /\ orch.out.ok =>
              /\ Len(orch.out.val) = Len(orch.raw.v.orders)
              /\ \A i \in DOMAIN orch.out.val :
                    /\ orch.out.val[i].parent_algo_id = algo.id
                    /\ orch.out.val[i].action =
                          (IF orch.raw.v.orders[i].action = "place"
                           THEN "Place" ELSE "Amend")
        /\ ~orch.out.ok => orch.out.err = [msg |-> "snapshot failed"]

\* C19 witness: a completed result with two Places was decoded and both were
\* returned for dispatch.
C19_Witness ==
    /\ CompletedResult /\ algo.status = "Completed"
    /\ orch.raw.v.orders = <<PlaceAuto, PlaceAuto>>
    /\ orch.out.ok /\ Len(orch.out.val) = 2
    /\ orch.pc = "dispatch" /\ Len(orch.pending) = 2

\* C20: after a guest call that failed or answered something that is no
\* PluginResult, the callback has returned an error and the status is Failed.
C20_GuestFailureFailsAlgorithm ==
    (orch.alive /\ orch.raw.some /\ orch.raw.v.kind \in {"trap", "malformed"}) =>
        /\ ~orch.out.ok
        /\ algo.status = "Failed"

\* C23: the requests a callback returns are those of result.orders, one for
\* one and in the guest's order: the i-th is a Place or an Amend as the i-th
\* guest order is, a guest's own client_order_id stays at its position, and
\* the host-assigned sequence numbers increase along the list.
C23_OrderPreserved ==
    (orch.alive /\ orch.raw.some /\ orch.out.ok) =>
        LET orders == ResultOrders(orch.raw)
            returned == orch.out.val
        IN  /\ Len(returned) = Len(orders)
            /\ \A i \in DOMAIN orders :
                  /\ (returned[i].action = "Place") <=> (orders[i].action = "place")
                  /\ (returned[i].action = "Amend") <=> (orders[i].action = "amend")
                  /\ orders[i] = PlaceOwn =>
                        returned[i].client_order_id = PlaceOwn.client_order_id
                  /\ orders[i] = PlaceAuto =>
                        returned[i].client_order_id.v \in HostIds
            /\ \A i, j \in DOMAIN orders :
                  (i < j /\ orders[i] = PlaceAuto /\ orders[j] = PlaceAuto) =>
                      returned[i].client_order_id.v.seq
                          < returned[j].client_order_id.v.seq

\* C23 witness: after an earlier assignment, a result <<Place without id,
\* Amend>> was returned as <<Place with sequence 2, Amend>>.
C23_Witness ==
    /\ orch.alive /\ orch.raw.some /\ orch.out.ok
    /\ ResultOrders(orch.raw) = <<PlaceAuto, Amend>>
    /\ orch.out.val[1].client_order_id = Some(client_id(AlgoId, 2))
    /\ orch.out.val[2].action = "Amend"

\* What a callback lets an observer see: what it returns, and the status and
\* snapshot of the algorithm afterwards.
Observed(r) == [out |-> r.out, status |-> r.a.status, snapshot |-> state(r.a)]

\* C22: the algorithm rebuilt from the snapshot of a live algorithm has its
\* id, status, next_client_seq, plugin context and plugin_state, and answers
\* every next callback as the live one does for the same guest answer.
C22_SnapshotRoundTrip ==
    orch.alive =>
        LET b == from_snapshot(algo.id, state(algo))
        IN  /\ b.id = algo.id /\ b.status = algo.status
            /\ b.next_client_seq = algo.next_client_seq
            /\ b.context = algo.context /\ b.plugin_state = algo.plugin_state
            /\ \A answer \in GuestAnswers, snapshot_ok \in BOOLEAN :
                  /\ Observed(start(b, answer, snapshot_ok))
                        = Observed(start(algo, answer, snapshot_ok))
                  /\ Observed(on_tick(b, answer, snapshot_ok))
                        = Observed(on_tick(algo, answer, snapshot_ok))
                  /\ Observed(on_fill(b, answer, snapshot_ok))
                        = Observed(on_fill(algo, answer, snapshot_ok))
                  /\ Observed(on_timer(b, answer, snapshot_ok))
                        = Observed(on_timer(algo, answer, snapshot_ok))
                  /\ Observed(cancel(b)) = Observed(cancel(algo))

----------------------------------------------------------------------------
(* Properties of the restoration *)

SandboxCalls == IF restore.sandbox.some THEN restore.sandbox.v.calls ELSE <<>>

\* C21: the sandbox from_snapshot instantiates sees init first and restore
\* second, each exactly once, whatever init answers and before any other
\* entry point; the restored algorithm holds the snapshot's plugin_state and
\* its guest the restored state; a failed restore fails the restoration.
C21_InitThenRestore ==
    /\ restore.pc = "loaded" => SandboxCalls = <<>>
    /\ (restore.pc # "loaded" /\ restore.sandbox.some) =>
          /\ Len(SandboxCalls) >= 2
          /\ SandboxCalls[1].entry = "init"
          /\ SandboxCalls[2].entry = "restore"
          /\ \A i \in DOMAIN SandboxCalls :
                i > 2 => SandboxCalls[i].entry \notin {"init", "restore"}
          /\ restore.pc = "restored" <=> SandboxCalls[2].ok
    /\ restore.pc = "restored" =>
          /\ restore.sandbox.some /\ restore.algo.some
          /\ restore.served = 0 =>
                /\ restore.algo.v.plugin_state = restore.snapshot.plugin_state
                /\ restore.sandbox.v.g = restored_guest(restore.snapshot.plugin_state)
    /\ restore.pc = "failed" => (~restore.algo.some /\ ~restore.out.ok)

\* C21 witness: init trapped, restore succeeded, the algorithm holds the
\* snapshot's state and an on_tick followed.
C21_Witness ==
    /\ restore.pc = "restored" /\ restore.snapshot.plugin_state = Json(2)
    /\ Len(SandboxCalls) >= 3
    /\ SandboxCalls[1] = Ran("init", FALSE)
    /\ SandboxCalls[2] = Ran("restore", TRUE)
    /\ SandboxCalls[3].entry = "on_tick"

----------------------------------------------------------------------------
(* Properties of the threads calling into one algorithm *)

InCallback(t) == threads.pc[t] \in {"lock", "guest", "relock", "snapshot"}
InFromSnapshot(t) == threads.pc[t] \in {"restore_init", "restore_restore"}

\* At most one guest entry point runs, and callbacks do not overlap: from its
\* guest call to the end of its snapshot a callback is alone in the algorithm.
Serialized ==
    /\ Cardinality(threads.running) <= 1
    /\ \A t, u \in Threads : (InCallback(t) /\ InCallback(u)) => t = u
    /\ \A t \in Threads : InCallback(t) => threads.borrow = Some(t)

\* C24 as stated: the guest entry points of one algorithm never overlap, no
\* callback starts while another is between its guest call and its snapshot,
\* and every guest entry point runs under the instance's mutex.
C24_AsStated ==
    /\ Serialized
    /\ \A r \in threads.running : threads.mutex = Some(r[1])

\* C24 (amended): as stated, except that the init and restore calls of
\* from_snapshot run on the sandbox before it is put under the mutex, while
\* the algorithm does not exist yet and no callback can reach it.
C24_SerializedGuestCalls ==
    /\ Serialized
    /\ \A r \in threads.running :
          \/ threads.mutex = Some(r[1])
          \/ /\ InFromSnapshot(r[1]) /\ r[2] \in {"init", "restore"}
             /\ ~threads.published
             /\ \A u \in Threads : ~InCallback(u)

\* C24 witness: a restored algorithm is between the on_tick guest call and the
\* snapshot of one thread's callback, the mutex free, the other thread kept out.
C24_Witness ==
    /\ threads.born = "snapshot" /\ threads.published
    /\ threads.pc["t1"] = "relock" /\ threads.entry["t1"] = "on_tick"
    /\ ~threads.mutex.some /\ threads.pc["t2"] = "idle"
    /\ ~can_borrow_mut("t2")

\* The place of a leg in handle_signal.
LegRank(leg) == CASE leg = "parent" -> 1 [] leg = "sl" -> 2 [] leg = "tp" -> 3

\* Legs in the order parent, stop-loss, take-profit, each at most once.
InLegOrder(s) ==
    \A i, j \in DOMAIN s : i < j => LegRank(s[i].leg) < LegRank(s[j].leg)

\* C30: the place_order calls made for one signal are at most three, one per
\* leg, in the order parent, stop-loss, take-profit; a protective leg is
\* attempted only once the parent placement has returned Ok, and a leg is
\* attempted only once the call before it has returned.
C30_CallOrder ==
    /\ Len(engine.calls) <= 3
    /\ InLegOrder(engine.calls) /\ InLegOrder(engine.checks)
    /\ \A j \in DOMAIN engine.checks :
          engine.checks[j].leg # "parent" =>
              /\ engine.calls # <<>>
              /\ engine.calls[1].leg = "parent"
              /\ engine.calls[1].outcome = "Ok"
    /\ \A j \in DOMAIN engine.calls :
          j < Len(engine.calls) => engine.calls[j].outcome # "pending"
    /\ \A j \in DOMAIN engine.calls :
          engine.calls[j].outcome = "pending" => engine.pc = engine.calls[j].leg
    /\ \A j \in DOMAIN engine.calls :
          \E i \in DOMAIN engine.checks :
              /\ engine.checks[i].leg = engine.calls[j].leg
              /\ engine.checks[i].verdict.ok

\* C30 witness: three calls for one signal, the stop-loss one having failed
\* before the take-profit one was made.
C30_Witness ==
    /\ engine.pc = "done"
    /\ Len(engine.calls) = 3
    /\ engine.calls[1].leg = "parent" /\ engine.calls[1].outcome = "Ok"
    /\ engine.calls[2].leg = "sl" /\ engine.calls[2].outcome = "Network"
    /\ engine.calls[3].leg = "tp" /\ engine.calls[3].outcome = "Ok"

\* handle_signal runs in liquidate-only mode under a BasicRiskChecker.
EngineLiquidating ==
    EngineStarted /\ engine.risk.kind = "Basic" /\ engine.ctx.liquidate_only

ProtectiveChecks ==
    {j \in DOMAIN engine.checks : engine.checks[j].leg \in {"sl", "tp"}}

\* In liquidate-only mode only the parent reaches the client, an accepted
\* parent reduces the position, and every protective leg is rejected.
OnlyParentPlaced ==
    /\ \A i \in DOMAIN engine.calls : engine.calls[i].leg = "parent"
    /\ \A j \in DOMAIN engine.checks :
          (engine.checks[j].leg = "parent" /\ engine.checks[j].verdict.ok) =>
              \/ /\ DecGt(engine.ctx.signed_position_qty, ZERO)
                 /\ engine.checks[j].request.side = "Sell"
              \/ /\ DecLt(engine.ctx.signed_position_qty, ZERO)
                 /\ engine.checks[j].request.side = "Buy"
    /\ \A j \in ProtectiveChecks : ~engine.checks[j].verdict.ok

\* C34 as stated: in liquidate-only mode under a BasicRiskChecker only the
\* parent reaches the client, and every protective leg is rejected with
\* LiquidateOnly.
C34_AsStated ==
    EngineLiquidating =>
        /\ OnlyParentPlaced
        /\ \A j \in ProtectiveChecks :
              engine.checks[j].verdict.err = LiquidateOnly

\* C34: in liquidate-only mode under a BasicRiskChecker only the parent
\* reaches the client: an accepted parent reduces the position and every
\* protective leg is rejected, with MaxPositionExposure when the projected
\* position exceeds the position limit and with LiquidateOnly otherwise.
C34_NoProtectiveLegs ==
    EngineLiquidating =>
        /\ OnlyParentPlaced
        /\ \A j \in ProtectiveChecks :
              LET limit == engine.risk.basic.limits.max_position_quantity
                  qty == DecAbs(engine.checks[j].request.quantity)
                  projected ==
                      IF engine.checks[j].request.side = "Buy"
                      THEN DecAdd(engine.ctx.signed_position_qty, qty)
                      ELSE DecSub(engine.ctx.signed_position_qty, qty)
              IN  IF F64Positive(limit) /\ Exceeds(DecAbs(projected), limit)
                  THEN engine.checks[j].verdict.err.tag = "MaxPositionExposure"
                  ELSE engine.checks[j].verdict.err = LiquidateOnly

\* C34 witness: the parent was placed and both protective legs were rejected
\* with LiquidateOnly, nothing but the parent having reached the client.
C34_Witness ==
    /\ EngineLiquidating /\ engine.pc = "done"
    /\ Len(engine.calls) = 1 /\ engine.calls[1].outcome = "Ok"
    /\ Cardinality(ProtectiveChecks) = 2
    /\ \A j \in ProtectiveChecks : engine.checks[j].verdict.err = LiquidateOnly
    /\ engine.warnings = <<"sl", "tp">>

\* The restore step: the orchestrator was down and restore_all has run.
RestoreStep == orch.pc = "down" /\ orch'.pc # "down"

SnapshotWorking == orch.repo.some /\ orch.repo.v.status = "Working"

\* What a reinstantiated algorithm carries of the snapshot it came from.
CarriesSnapshot(a, snapshot) ==
    /\ a.id = AlgoId
    /\ a.status = snapshot.status
    /\ a.plugin_state = snapshot.plugin_state
    /\ a.next_client_seq = snapshot.next_client_seq

C27_SnapshotUpToDate ==
    (orch.alive /\ orch.pc = "idle") =>
        /\ restored_guest(state(algo).plugin_state) = algo.instance
        /\ state(algo).status = algo.status
        /\ state(algo).next_client_seq = algo.next_client_seq

\* C32: start on a started algorithm (one built by from_snapshot included)
\* returns an empty list, does not call the guest and changes nothing of the
\* algorithm; start on an algorithm not started calls init, and the algorithm
\* is started afterwards exactly when that start returned Ok.
C32_Step ==
    Start =>
        IF algo.started
        THEN /\ algo' = algo
             /\ orch'.out = Ok(<<>>)
             /\ ~orch'.raw.some
        ELSE /\ orch'.raw.some
             /\ algo'.started <=> orch'.out.ok
C32_StartOnce == [][C32_Step]_vars

\* C32 witness: start has returned on an algorithm rebuilt by from_snapshot,
\* without a guest call.
C32_Witness ==
    /\ orch.restored /\ orch.pc = "persist" /\ orch.events >= 1
    /\ ~orch.raw.some
    /\ algo.started /\ algo.status = "Working"

\* A callback (start, on_tick, on_fill, on_timer) has returned an error.
CallbackFailed == orch'.events = orch.events + 1 /\ ~orch'.out.ok

\* C33: a callback that returns an error leaves status, next_client_seq and
\* plugin_state as they were before the call.
C33_ErrorLeavesStateUnchanged ==
    [][CallbackFailed =>
          /\ algo'.status = algo.status
          /\ algo'.next_client_seq = algo.next_client_seq
          /\ algo'.plugin_state = algo.plugin_state]_vars

----------------------------------------------------------------------------
(* Properties of the routing of fills *)

Occurrences(s, x) == Cardinality({i \in DOMAIN s : s[i] = x})

\* C25: once the fill of an order placed by algorithm A has been delivered,
\* however many times, A has received on_fill for it exactly once and no other
\* algorithm has received it.
C25_FillExactlyOnceToOwner ==
    \A o \in OrderIds :
        /\ fills.deliveries[o] >= 1 =>
              /\ fills.index[o].some
              /\ Occurrences(fills.on_fill_calls[fills.index[o].v], o) = 1
        /\ \A a \in Algos :
              fills.index[o] # Some(a) =>
                  Occurrences(fills.on_fill_calls[a], o) = 0

\* C25 witness: the fill of A's order x was delivered twice and A saw it once,
\* while B saw only the fill of its own order y.
C25_Witness ==
    /\ fills.index["x"] = Some("A") /\ fills.index["y"] = Some("B")
    /\ fills.deliveries["x"] = 2 /\ fills.deliveries["y"] >= 1
    /\ fills.on_fill_calls["A"] = <<"x">>
    /\ fills.on_fill_calls["B"] = <<"y">>

----------------------------------------------------------------------------
(* Properties of the StrategyContext *)

\* The last n items of s, in order.
LastOf(s, n) ==
    IF Len(s) <= n THEN s ELSE SubSeq(s, Len(s) - n + 1, Len(s))

\* C29: each buffer holds at most max_history items, and they are the most
\* recently pushed ones in push order.
C29_HistoryBounded ==
    /\ Len(history.recent_candles) <= history.max_history
    /\ Len(history.recent_ticks) <= history.max_history
    /\ history.recent_candles = LastOf(history.pushed_candles, history.max_history)
    /\ history.recent_ticks = LastOf(history.pushed_ticks, history.max_history)

----------------------------------------------------------------------------
(* Properties of the RpcStrategy *)

\* The heartbeat tasks that run and were not aborted.
LiveTasks ==
    {t \in ClientIds :
        rpc.tasks[t].pc \in {"waiting", "resolved"} /\ ~rpc.tasks[t].aborted}

\* C31 without the health flag: at most one heartbeat task is live, it is the
\* one of the current client, and there is none after a teardown.
HeartbeatScoped ==
    /\ Cardinality(LiveTasks) <= 1
    /\ \A t \in LiveTasks :
          rpc.heartbeat_handle = Some(t) /\ rpc.client = Some(t)
    /\ rpc.torn =>
          /\ LiveTasks = {}
          /\ rpc.heartbeat_handle = None
          /\ rpc.client = None

\* C31: at most one heartbeat task is live and it belongs to the current
\* client; after teardown_client, configure or drop, and until a client is
\* installed again, no heartbeat task runs, the client is None and the health
\* flag is false.
C31_OneScopedHeartbeat ==
    /\ HeartbeatScoped
    /\ rpc.torn => ~rpc.health

\* An event is forwarded, or was last forwarded, only on an installed client
\* whose handshake succeeded; during a handshake the old client and its
\* heartbeat are gone.
ForwardedOnHandshaken ==
    /\ rpc.pc = "forwarding" =>
          rpc.client.some /\ rpc.client.v \in rpc.handshaken
    /\ rpc.last.out = "Ok" <=> rpc.last.on.some
    /\ rpc.last.on.some => rpc.last.on.v \in rpc.handshaken
    /\ rpc.pc \in {"connecting", "initializing"} =>
          /\ rpc.client = None /\ rpc.heartbeat_handle = None
          /\ LiveTasks = {}
          /\ rpc.built \notin rpc.handshaken

\* One step of an event handler.
C35_Step ==
    /\ \* the event arrives
       (rpc.pc = "idle" /\ rpc'.event # "none") =>
          IF rpc.client.some /\ rpc.health
          THEN rpc'.pc = "forwarding" /\ rpc'.client = rpc.client
          ELSE /\ rpc.transport_config.some
               /\ rpc'.pc = "connecting"
               /\ rpc'.built = rpc.built + 1
    /\ \* the handshake fails
       (rpc.pc \in {"connecting", "initializing"} /\ rpc'.pc = "idle") =>
          /\ rpc'.last.event = rpc.event
          /\ rpc'.last.out \in {"connect failed", "init failed", "init rejected"}
          /\ rpc'.client = None /\ rpc'.heartbeat_handle = None
          /\ LiveTasks' = {}
    /\ \* the handshake succeeds
       (rpc.pc = "initializing" /\ rpc'.pc = "forwarding") =>
          /\ rpc'.client = Some(rpc.built) /\ rpc'.health
          /\ LiveTasks' = {rpc.built}
    /\ \* the event is forwarded
       (rpc.pc = "forwarding" /\ rpc'.pc = "idle") =>
          /\ rpc'.last = [event |-> rpc.event, out |-> "Ok", on |-> rpc.client]

\* C35: an event that finds no client, or the health flag false, is forwarded
\* only after the old client was torn down and a connect + initialize
\* handshake succeeded; a failed handshake returns an error, forwards nothing
\* and leaves no client and no heartbeat task, so that the next event tries
\* again; no event is forwarded on a client whose handshake did not succeed.
C35_ReconnectOnDemand == []ForwardedOnHandshaken /\ [][C35_Step]_vars

\* C35 witness: the first handshake failed, the next event made a second one
\* and was forwarded on the second client.
C35_Witness ==
    /\ rpc.pc = "idle" /\ rpc.built = 2 /\ rpc.handshaken = {2}
    /\ rpc.last.out = "Ok" /\ rpc.last.on = Some(2)

\* One round of the heartbeat task t: the response it holds is acted upon.
HeartbeatRound(t) ==
    (rpc.tasks[t].pc = "resolved" /\ rpc'.tasks[t].pc # "resolved") =>
        /\ IF rpc.tasks[t].resp = "healthy"
           THEN rpc'.health /\ rpc'.tasks[t].failures = 0
           ELSE ~rpc'.health
                /\ rpc'.tasks[t].failures = rpc.tasks[t].failures + 1
        /\ rpc'.tasks[t].pc = "stopped" <=>
              rpc'.tasks[t].failures = rpc.max_heartbeat_failures

\* The heartbeat loop counts consecutive failures and stops at the threshold.
HeartbeatCounts == [][\A t \in ClientIds : HeartbeatRound(t)]_vars

\* The heartbeat task of the installed client has stopped.
HeartbeatStopped ==
    /\ rpc.client.some
    /\ rpc.heartbeat_handle = rpc.client
    /\ rpc.tasks[rpc.client.v].pc = "stopped"

\* C36: a healthy response sets the flag and resets the counter, any other
\* sets the flag to false and increments the counter, the task stops exactly
\* when the counter reaches max_heartbeat_failures, and once it has stopped
\* the flag is false until a new client is initialized.
C36_HeartbeatFailures ==
    /\ [][\A t \in ClientIds : HeartbeatRound(t)]_vars
    /\ [](HeartbeatStopped => ~rpc.health)

\* C37: the health flag is never written by a heartbeat task that was aborted
\* (the task of a client torn down or replaced).
C37_NoLateHeartbeatWrite ==
    ~(rpc.wrote.by = "heartbeat" /\ rpc.wrote.stale)

----------------------------------------------------------------------------
(* Properties of the mock exchange *)

PrivateOpen == {c \in Connections : mock.conn[c] = "open"}

\* C38: the registered private-stream sender always belongs to a connection
\* that is still open, a sender is registered whenever a private connection
\* is open, and no message is dropped silently while one is open.
C38_SenderWhileServed ==
    /\ mock.private_ws_sender.some => mock.private_ws_sender.v \in PrivateOpen
    /\ PrivateOpen # {} => mock.private_ws_sender.some
    /\ ~(mock.last.out = "Ok" /\ ~mock.last.to.some /\ mock.last.open)

====
